---- MODULE Spec2Model ----
(***************************************************************************)
(* Call-based attendance (classification, reconciliation, manual override, *)
(* audit trail) and slab-based sales incentive of horilla-hrms.            *)
(*                                                                         *)
(* The module holds several specifications over one set of variables; each *)
(* specification moves its own group of variables and leaves the others at *)
(* their initial value:                                                    *)
(*   SpecClassify   calculate_attendance_status as a function              *)
(*   SpecViewStatus AttendanceValidator.calculate_attendance_status        *)
(*   SpecValidator  IncentiveValidator.calculate_incentive as a function   *)
(*   SpecIncentive  IncentiveSlab / Lead / IncentiveCalculation            *)
(*   SpecPreview    get_incentive_preview over the IncentiveSlab rows      *)
(*   Spec           the attendance tables, one whole call per step         *)
(*   SpecConfig     the writes of CallAttendanceConfig, one call per step  *)
(*   SpecConc       the attendance tables, statement by statement, with    *)
(*                  requests interleaving under READ COMMITTED             *)
(*   SpecConfigConc CallAttendanceConfig.save, statement by statement      *)
(*   SpecManual     manual updates, deletes and cleanup by every user      *)
(*   SpecCommand    the calculate_call_attendance management command       *)
(*   SpecWriters    every operation that writes CallAttendance rows        *)
(*   SpecRetention  manual updates over several days and the audit cleanup *)
(*   SpecSlabForm   slabs entered through IncentiveSlabForm, and preview   *)
(*   SpecExpenses   the expense and reimbursement views, with the         *)
(*                  reimbursement_create requests interleaving            *)
(***************************************************************************)
EXTENDS Integers, Sequences, FiniteSets, TLC

VARIABLES
    cMinutes, cCfg, cStatus,        \* SpecClassify: arguments and result
    vAmount, vResult,               \* SpecValidator: argument and result
    slabs, disbursed, calc,         \* SpecIncentive: IncentiveSlab rows, disbursed Lac, IncentiveCalculation
    iret,                           \* SpecIncentive: what the last incentive call returned or raised
    callLogs,                       \* CallLog rows
    attendance,                     \* CallAttendance rows
    audits,                         \* CallAttendanceAudit rows, oldest first
    configs,                        \* CallAttendanceConfig rows
    ret,                            \* Spec: what the last call returned or raised
    ops,                            \* Spec: the number of calls made so far
    txn,                            \* SpecConc: each request's position, locals and uncommitted writes
    today,                          \* SpecRetention: date.today() as a day number
    expenseTable,                   \* SpecExpenses: Expense rows by pk
    reimbursementTable,             \* SpecExpenses: ReimbursementRequest rows by pk
    forms                           \* SpecExpenses: the reimbursement_create requests in flight

classifyVars == <<cMinutes, cCfg, cStatus>>
validatorVars == <<vAmount, vResult>>
incentiveVars == <<slabs, disbursed, calc, iret>>
dbVars == <<callLogs, attendance, audits, configs>>
expenseVars == <<expenseTable, reimbursementTable, forms>>
nonClassifyVars == <<today, expenseVars, txn, validatorVars, incentiveVars, dbVars, ret, ops>>
nonValidatorVars == <<today, expenseVars, txn, classifyVars, incentiveVars, dbVars, ret, ops>>
nonIncentiveVars == <<today, expenseVars, txn, classifyVars, validatorVars, dbVars, ret, ops>>
nonAttendanceVars == <<classifyVars, validatorVars, incentiveVars, txn, today, expenseVars>>
nonExpenseVars == <<classifyVars, validatorVars, incentiveVars, dbVars, ret, ops, txn, today>>
nonConcVars == <<classifyVars, validatorVars, incentiveVars, callLogs, configs, ret, ops, today,
                 expenseVars>>
vars == <<cMinutes, cCfg, cStatus, vAmount, vResult, slabs, disbursed, calc, iret,
          callLogs, attendance, audits, configs, ret, ops, txn, today,
          expenseTable, reimbursementTable, forms>>

Min(a, b) == IF a <= b THEN a ELSE b

(***************************************************************************)
(* Bounds of the model.                                                    *)
(***************************************************************************)
MaxClassifyMinutes == 5     \* call minutes and thresholds tried by SpecClassify: 0..MaxClassifyMinutes
MaxLac == 110               \* largest whole-Lac amount handed to IncentiveValidator.calculate_incentive
MaxDisbursed == 12          \* largest monthly disbursed amount (whole Lac) in SpecIncentive
MaxLead == 7                \* largest single disbursed lead (whole Lac) in SpecIncentive
MaxPreview == 12            \* largest whole-Lac amount handed to get_incentive_preview
MaxOps == 5                 \* Spec follows every sequence of at most MaxOps calls
MaxViewMinutes == 250       \* call minutes posted to the manual-update view in SpecViewStatus: 0..MaxViewMinutes
MaxDay == 8                 \* SpecRetention lets the clock run up to day MaxDay

(***************************************************************************)
(* CallAttendanceService.calculate_attendance_status                       *)
(***************************************************************************)
\* a third comparison against absent_threshold_minutes
calculate_attendance_status_floor(call_minutes, config) ==
    IF call_minutes >= config.full_day_minutes THEN "PRESENT"
    ELSE IF call_minutes >= config.half_day_minutes THEN "HALF_DAY"
    ELSE IF call_minutes >= config.absent_threshold_minutes THEN "HALF_DAY"
    ELSE "ABSENT"

calculate_attendance_status(call_minutes, config) ==
    IF call_minutes >= config.full_day_minutes THEN "PRESENT"
    ELSE IF call_minutes >= config.half_day_minutes THEN "HALF_DAY"
    ELSE "ABSENT"

ConfigValues ==
    [full_day_minutes : 0..MaxClassifyMinutes,
     half_day_minutes : 0..MaxClassifyMinutes,
     absent_threshold_minutes : 0..MaxClassifyMinutes]

ClassifyIdle ==
    /\ cMinutes = 0
    /\ cCfg = [full_day_minutes |-> 0, half_day_minutes |-> 0, absent_threshold_minutes |-> 0]
    /\ cStatus = "none"

(***************************************************************************)
(* IncentiveValidator.calculate_incentive over its own INCENTIVE_SLABS.    *)
(* A slab without an upper bound (max_lac None) has has_max = FALSE.       *)
(***************************************************************************)
INCENTIVE_SLABS ==
    << [min_lac |-> 1,  has_max |-> TRUE,  max_lac |-> 5,  rate |-> 300],
       [min_lac |-> 6,  has_max |-> TRUE,  max_lac |-> 10, rate |-> 400],
       [min_lac |-> 11, has_max |-> TRUE,  max_lac |-> 15, rate |-> 500],
       [min_lac |-> 16, has_max |-> TRUE,  max_lac |-> 20, rate |-> 600],
       [min_lac |-> 21, has_max |-> TRUE,  max_lac |-> 25, rate |-> 700],
       [min_lac |-> 26, has_max |-> TRUE,  max_lac |-> 30, rate |-> 750],
       [min_lac |-> 31, has_max |-> TRUE,  max_lac |-> 35, rate |-> 800],
       [min_lac |-> 36, has_max |-> TRUE,  max_lac |-> 40, rate |-> 850],
       [min_lac |-> 41, has_max |-> TRUE,  max_lac |-> 45, rate |-> 900],
       [min_lac |-> 46, has_max |-> TRUE,  max_lac |-> 50, rate |-> 950],
       [min_lac |-> 51, has_max |-> FALSE, max_lac |-> 0,  rate |-> 1000] >>

\* slab_max - slab_min + 1 without the + 1
ValidatorSlabWidthNoPlusOne(slab) == slab.max_lac - slab.min_lac

\* validators.py:175, the width of a bounded slab
ValidatorSlabWidth(slab) == slab.max_lac - slab.min_lac + 1

\* validators.py:164-181, the loop body from slab i on
RECURSIVE ValidatorLoop(_, _, _, _)
ValidatorLoop(i, loan_amount_lac, remaining_amount, total_incentive) ==
    IF i > Len(INCENTIVE_SLABS) \/ remaining_amount <= 0
    THEN total_incentive
    ELSE LET slab == INCENTIVE_SLABS[i]
             slab_amount == IF ~slab.has_max
                            THEN remaining_amount
                            ELSE Min(remaining_amount, ValidatorSlabWidth(slab))
             applicable_amount == Min(slab_amount, remaining_amount)
         IN  IF /\ loan_amount_lac >= slab.min_lac
                /\ (~slab.has_max \/ loan_amount_lac >= slab.min_lac)
             THEN ValidatorLoop(i + 1, loan_amount_lac,
                                remaining_amount - applicable_amount,
                                total_incentive + applicable_amount * slab.rate)
             ELSE ValidatorLoop(i + 1, loan_amount_lac, remaining_amount, total_incentive)

\* the value returned, or the SalesValidationError raised for an amount <= 0
ValidatorCalculateIncentive(loan_amount_lac) ==
    IF loan_amount_lac <= 0
    THEN [ok |-> FALSE, total |-> 0]
    ELSE [ok |-> TRUE, total |-> ValidatorLoop(1, loan_amount_lac, loan_amount_lac, 0)]

ValidatorIdle ==
    /\ vAmount = 0
    /\ vResult = [ok |-> FALSE, total |-> 0]

(***************************************************************************)
(* IncentiveSlab rows, the leads disbursed to one employee in one month    *)
(* (in whole Lac) and that month's IncentiveCalculation.                   *)
(***************************************************************************)
DefaultSlabs ==
    << [min_amount |-> 1,  has_max |-> TRUE,  max_amount |-> 5,  incentive_per_lac |-> 300,  is_active |-> TRUE],
       [min_amount |-> 6,  has_max |-> TRUE,  max_amount |-> 10, incentive_per_lac |-> 400,  is_active |-> TRUE],
       [min_amount |-> 11, has_max |-> TRUE,  max_amount |-> 15, incentive_per_lac |-> 500,  is_active |-> TRUE],
       [min_amount |-> 16, has_max |-> TRUE,  max_amount |-> 20, incentive_per_lac |-> 600,  is_active |-> TRUE],
       [min_amount |-> 21, has_max |-> TRUE,  max_amount |-> 25, incentive_per_lac |-> 700,  is_active |-> TRUE],
       [min_amount |-> 26, has_max |-> TRUE,  max_amount |-> 30, incentive_per_lac |-> 750,  is_active |-> TRUE],
       [min_amount |-> 31, has_max |-> TRUE,  max_amount |-> 35, incentive_per_lac |-> 800,  is_active |-> TRUE],
       [min_amount |-> 36, has_max |-> TRUE,  max_amount |-> 40, incentive_per_lac |-> 850,  is_active |-> TRUE],
       [min_amount |-> 41, has_max |-> TRUE,  max_amount |-> 45, incentive_per_lac |-> 900,  is_active |-> TRUE],
       [min_amount |-> 46, has_max |-> TRUE,  max_amount |-> 50, incentive_per_lac |-> 950,  is_active |-> TRUE],
       [min_amount |-> 51, has_max |-> FALSE, max_amount |-> 0,  incentive_per_lac |-> 1000, is_active |-> TRUE] >>

WaiverDefault == 30

\* IncentiveSlab.objects.filter(is_active=True).order_by('min_amount')
RECURSIVE OrderByMinAmount(_)
OrderByMinAmount(rows) ==
    IF rows = {} THEN <<>>
    ELSE LET first == CHOOSE r \in rows : \A q \in rows : r.min_amount <= q.min_amount
         IN  <<first>> \o OrderByMinAmount(rows \ {first})

ActiveSlabs(tbl) == {tbl[i] : i \in {j \in 1..Len(tbl) : tbl[j].is_active}}

\* sales_incentive_models.py:273-284, the loop from slab i on
RECURSIVE ModelSlabLoop(_, _, _, _)
ModelSlabLoop(ordered, i, amount_lac, incentive) ==
    IF i > Len(ordered) THEN incentive
    ELSE LET slab == ordered[i]
         IN  IF /\ amount_lac >= slab.min_amount
                /\ (~slab.has_max \/ amount_lac <= slab.max_amount)
             THEN LET slab_amount ==
                          Min(amount_lac - slab.min_amount + 1,
                              IF slab.has_max /\ slab.max_amount # 0
                              THEN slab.max_amount - slab.min_amount + 1
                              ELSE amount_lac)
                      incentive2 == incentive + slab_amount * slab.incentive_per_lac
                      amount2 == amount_lac - slab_amount
                  IN  IF amount2 <= 0 THEN incentive2
                      ELSE ModelSlabLoop(ordered, i + 1, amount2, incentive2)
             ELSE ModelSlabLoop(ordered, i + 1, amount_lac, incentive)

\* incentive_amount as calculate_incentive computes it
ModelIncentive(amount_lac, tbl) ==
    ModelSlabLoop(OrderByMinAmount(ActiveSlabs(tbl)), 1, amount_lac, 0)

\* no IncentiveCalculation row for the month; exists tells whether the row is
\* stored, the other fields hold the defaults of the model
NoCalculation ==
    [exists |-> FALSE,
     total_disbursed_amount |-> 0, incentive_amount |-> 0,
     waiver_percentage |-> WaiverDefault, final_incentive_x100 |-> 0,
     is_calculated |-> FALSE]

\* no incentive call made yet
NoIret ==
    [op |-> "none", amount |-> 0, raised |-> "none",
     total_incentive |-> 0, breakdown |-> <<>>, remaining_amount |-> 0]

IncentiveIdle ==
    /\ slabs = <<>>
    /\ disbursed = 0
    /\ calc = NoCalculation
    /\ iret = NoIret

\* the clock stands still except in SpecRetention
ClockIdle == today = 0

\* a reimbursement_create request that has not started
NoForm == [pc |-> "start", user |-> "none", selected |-> {}]

\* the reimbursement_create requests the model follows step by step
FormIds == {"F1", "F2"}

ExpenseIdle ==
    /\ expenseTable = <<>>
    /\ reimbursementTable = <<>>
    /\ forms = [f \in FormIds |-> NoForm]

(***************************************************************************)
(* The attendance tables.  A table is the set of its rows; the audit table *)
(* is kept in insertion order.  None is written 0 in updated_by and "None" *)
(* in manual_reason.                                                       *)
(***************************************************************************)
Employees == {1, 2}
ConfigIds == {1, 2}                \* primary keys of CallAttendanceConfig rows

\* dates as day numbers, date.weekday() = d % 7: 5 is a Saturday, 6 a Sunday
Dates == {5, 6}

\* the (employee, date) pairs the calls are tried with
Keys == {<<1, 5>>, <<2, 5>>, <<1, 6>>}

\* (call_duration_minutes, call_count) pairs the calls are tried with
CallInputs == {<<0, 0>>, <<2, 1>>, <<3, 2>>}

\* (full_day_minutes, half_day_minutes, absent_threshold_minutes) of the configs saved
ThresholdChoices == {<<2, 1, 0>>, <<3, 2, 1>>}

\* users: admin is a superuser linked to employee 1, staff an ordinary
\* employee (2) without the permission or a TL/manager position, lead an
\* employee (3) whose job position is "Team Leader"
Users == {"admin", "staff", "lead"}

\* the users manual_update_attendance is called by in Spec
Callers == {"admin", "staff"}
IsSuperuser(user) == user = "admin"
EmployeeGet(user) == CASE user = "admin" -> 1 [] user = "staff" -> 2 [] OTHER -> 3

\* work_info.job_position_id.job_position.lower() of the user's employee
JobPosition(user) ==
    CASE user = "admin" -> "director" [] user = "staff" -> "sales executive"
      [] OTHER -> "team leader"

\* user.has_perm('attendance.manual_update_call_attendance'): true of an
\* active superuser; the permission is granted to nobody else
HasPerm(user) == IsSuperuser(user)

\* employee_work_info.reporting_manager_id of an employee, 0 for None:
\* employee 2 reports to employee 3 (lead), employee 1 to nobody
ReportingManager(employee_id) == IF employee_id = 2 THEN 3 ELSE 0

NoRet ==
    [op |-> "none", date |-> 0, reason |-> "none",
     processed |-> 0, skipped |-> 0, processed_ids |-> {}, skipped_ids |-> {},
     repeat |-> FALSE]

\* the requests that run side by side in SpecConc: one reconciliation, two
\* manual updates through the service, one through the view; and in
\* SpecConfigConc: two saves of an active config and one reader
Procs == {"R", "M1", "M2", "V", "S1", "S2", "G"}
Savers == {"S1", "S2"}
ManualProcs == {"M1", "M2"}

\* a request that has not started: no config read, no row in memory, nothing
\* written
TxnStart ==
    [pc |-> "start", config |-> {}, row |-> {}, old |-> {},
     w_att |-> {}, w_audits |-> <<>>, processed |-> 0, skipped |-> 0]

DbEmpty ==
    /\ callLogs = {}
    /\ attendance = {}
    /\ audits = <<>>
    /\ configs = {}

AttendanceIdle ==
    /\ DbEmpty
    /\ ret = NoRet
    /\ ops = 0
    /\ txn = [p \in Procs |-> TxnStart]

\* one more call, while the bound allows it
Tick ==
    /\ ops < MaxOps
    /\ ops' = ops + 1

(***************************************************************************)
(* SpecClassify: calculate_attendance_status applied to every call         *)
(* duration and every triple of thresholds within the bound (ordered or    *)
(* not: the function itself does not look at the ordering).                *)
(***************************************************************************)
InitClassify ==
    /\ cMinutes \in 0..MaxClassifyMinutes
    /\ cCfg \in ConfigValues
    /\ cStatus = "none"
    /\ ValidatorIdle
    /\ IncentiveIdle
    /\ ClockIdle
    /\ ExpenseIdle
    /\ AttendanceIdle

Classify ==
    /\ cStatus = "none"
    /\ cStatus' = calculate_attendance_status(cMinutes, cCfg)
    /\ UNCHANGED <<cMinutes, cCfg, nonClassifyVars>>

NextClassify == Classify

SpecClassify == InitClassify /\ [][NextClassify]_vars

(***************************************************************************)
(* SpecViewStatus: the status the manual-update view and the bulk upload   *)
(* compute for a duration (views.py:281 and 659), while cCfg is the active *)
(* config.                                                                 *)
(***************************************************************************)
\* AttendanceValidator.calculate_attendance_status
AttendanceValidator_calculate_attendance_status(call_duration_minutes) ==
    IF call_duration_minutes >= 171 THEN "PRESENT"
    ELSE IF call_duration_minutes >= 121 THEN "HALF_DAY"
    ELSE "ABSENT"

\* the active configs tried: the model's default thresholds, and 4 h / 2 h / 1 h
ViewConfigs ==
    {[full_day_minutes |-> 171, half_day_minutes |-> 121, absent_threshold_minutes |-> 120],
     [full_day_minutes |-> 240, half_day_minutes |-> 120, absent_threshold_minutes |-> 60]}

InitViewStatus ==
    /\ cMinutes \in 0..MaxViewMinutes
    /\ cCfg \in ViewConfigs
    /\ cStatus = "none"
    /\ ValidatorIdle
    /\ IncentiveIdle
    /\ ClockIdle
    /\ ExpenseIdle
    /\ AttendanceIdle

ViewClassify ==
    /\ cStatus = "none"
    /\ cStatus' = AttendanceValidator_calculate_attendance_status(cMinutes)
    /\ UNCHANGED <<cMinutes, cCfg, nonClassifyVars>>

NextViewStatus == ViewClassify

SpecViewStatus == InitViewStatus /\ [][NextViewStatus]_vars

\* C23: for every duration and every valid active config, the status the
\* manual-update view and the bulk upload compute is the status the
\* service's manual_update_attendance writes, classify(duration, config).
C23_ViewStatusIsService ==
    (/\ cStatus # "none"
     /\ cCfg.full_day_minutes > cCfg.half_day_minutes
     /\ cCfg.half_day_minutes > cCfg.absent_threshold_minutes) =>
        cStatus = calculate_attendance_status(cMinutes, cCfg)

\* C8: the status returned is PRESENT iff m >= full_day_minutes, HALF_DAY iff
\* half_day_minutes <= m < full_day_minutes, ABSENT otherwise, and is the same
\* for every value of absent_threshold_minutes.
C8_ClassifyThresholds ==
    cStatus # "none" =>
        /\ cStatus \in {"PRESENT", "HALF_DAY", "ABSENT"}
        /\ (cStatus = "PRESENT") <=> (cMinutes >= cCfg.full_day_minutes)
        /\ (cStatus = "HALF_DAY") <=>
               (cCfg.half_day_minutes <= cMinutes /\ cMinutes < cCfg.full_day_minutes)
        /\ (cStatus = "ABSENT") <=>
               ~(cMinutes >= cCfg.full_day_minutes)
               /\ ~(cCfg.half_day_minutes <= cMinutes /\ cMinutes < cCfg.full_day_minutes)
        /\ \A a \in 0..MaxClassifyMinutes :
               calculate_attendance_status(
                   cMinutes, [cCfg EXCEPT !.absent_threshold_minutes = a]) = cStatus

\* a duration exactly on the half-day threshold, below the absent threshold
C8_Witness ==
    /\ cStatus = "HALF_DAY"
    /\ cMinutes = cCfg.half_day_minutes
    /\ cMinutes < cCfg.absent_threshold_minutes
    /\ cCfg.full_day_minutes > cCfg.half_day_minutes

(***************************************************************************)
(* SpecValidator: IncentiveValidator.calculate_incentive called with       *)
(* whole-Lac amounts, the non-positive ones included.                      *)
(***************************************************************************)
InitValidator ==
    /\ ValidatorIdle
    /\ ClassifyIdle
    /\ IncentiveIdle
    /\ ClockIdle
    /\ ExpenseIdle
    /\ AttendanceIdle

ValidatorCall(loan_amount_lac) ==
    /\ vAmount' = loan_amount_lac
    /\ vResult' = ValidatorCalculateIncentive(loan_amount_lac)
    /\ UNCHANGED nonValidatorVars

NextValidator == \E a \in -1..MaxLac : ValidatorCall(a)

SpecValidator == InitValidator /\ [][NextValidator]_vars

\* the part of a whole-Lac amount a that lies inside the band [lo, hi] (hi
\* unbounded when ~bounded), counted in whole Lac
PartInside(a, lo, bounded, hi) ==
    IF a < lo THEN 0
    ELSE (IF bounded THEN Min(a, hi) ELSE a) - lo + 1

\* the tiered reference total over the first n slabs of the validator's table
RECURSIVE TieredReference(_, _)
TieredReference(a, n) ==
    IF n = 0 THEN 0
    ELSE LET s == INCENTIVE_SLABS[n]
         IN  TieredReference(a, n - 1)
             + PartInside(a, s.min_lac, s.has_max, s.max_lac) * s.rate

\* every slab up to and including slab n billed in full
RECURSIVE FullSlabs(_)
FullSlabs(n) ==
    IF n = 0 THEN 0
    ELSE LET s == INCENTIVE_SLABS[n]
         IN  FullSlabs(n - 1) + (s.max_lac - s.min_lac + 1) * s.rate

\* C10: for every positive whole-Lac amount the validator returns the tiered
\* reference total; 5 -> 1500, 7 -> 2300, 10 -> 3500, 55 -> all ten full lower
\* slabs plus 5 x 1000; an amount on a slab's upper bound is billed only in the
\* slabs up to and including that slab.
C10_ValidatorTiered ==
    vResult.ok =>
        /\ vAmount > 0
        /\ vResult.total = TieredReference(vAmount, Len(INCENTIVE_SLABS))
        /\ (vAmount = 5 => vResult.total = 1500)
        /\ (vAmount = 7 => vResult.total = 2300)
        /\ (vAmount = 10 => vResult.total = 3500)
        /\ (vAmount = 55 => vResult.total = FullSlabs(10) + 5 * 1000)
        /\ \A n \in 1..Len(INCENTIVE_SLABS) :
               (INCENTIVE_SLABS[n].has_max /\ vAmount = INCENTIVE_SLABS[n].max_lac)
                   => vResult.total = FullSlabs(n)

C10_Witness ==
    /\ vResult.ok
    /\ vAmount = 55
    /\ vResult.total = 38750

(***************************************************************************)
(* SpecIncentive: the init command creates the default slabs, an admin     *)
(* switches a slab's is_active, leads are disbursed, and                   *)
(* calculate_monthly_incentive computes the month's IncentiveCalculation.  *)
(***************************************************************************)
InitIncentive ==
    /\ IncentiveIdle
    /\ ClockIdle
    /\ ExpenseIdle
    /\ ClassifyIdle
    /\ ValidatorIdle
    /\ AttendanceIdle

\* management_command_init_sales.py:33-38, get_or_create by (min_amount, max_amount)
RECURSIVE GetOrCreateSlabs(_, _)
GetOrCreateSlabs(tbl, i) ==
    IF i > Len(DefaultSlabs) THEN tbl
    ELSE LET d == DefaultSlabs[i]
             exists == \E k \in 1..Len(tbl) :
                          /\ tbl[k].min_amount = d.min_amount
                          /\ tbl[k].has_max = d.has_max
                          /\ tbl[k].max_amount = d.max_amount
         IN  GetOrCreateSlabs(IF exists THEN tbl ELSE Append(tbl, d), i + 1)

InitSalesCommand ==
    /\ slabs' = GetOrCreateSlabs(slabs, 1)
    /\ UNCHANGED <<disbursed, calc, iret, nonIncentiveVars>>

\* the admin form of IncentiveSlab: is_active switched on one row; the model
\* keeps at most one slab inactive at a time
AdminSetSlabActive(i, b) ==
    /\ i \in 1..Len(slabs)
    /\ b \/ \A k \in 1..Len(slabs) : slabs[k].is_active
    /\ slabs' = [slabs EXCEPT ![i].is_active = b]
    /\ UNCHANGED <<disbursed, calc, iret, nonIncentiveVars>>

\* a lead of the month reaches status DISBURSED (loan_amount in whole Lac)
DisburseLead(loan_amount_lac) ==
    /\ disbursed + loan_amount_lac <= MaxDisbursed
    /\ disbursed' = disbursed + loan_amount_lac
    /\ UNCHANGED <<slabs, calc, iret, nonIncentiveVars>>

\* the waiver added instead of taken off
FinalIncentiveWaiverAdded(incentive, waiver_percentage) ==
    incentive * (100 + waiver_percentage)

\* sales_incentive_models.py:287: incentive * (1 - waiver_percentage / 100)
\* in hundredths
FinalIncentiveX100(incentive, waiver_percentage) ==
    incentive * (100 - waiver_percentage)

\* SalesIncentiveService.calculate_monthly_incentive: get_or_create the
\* month's row (waiver 30), then IncentiveCalculation.calculate_incentive.
\* On the row get_or_create has just created, waiver_percentage is still the
\* int 30 of the defaults, 1 - 30 / 100 is a float, and a Decimal incentive
\* times a float raises TypeError before save(): the service prints the
\* error and returns None, and the row stays as created.  A row read back
\* from the table has a Decimal waiver_percentage, and an incentive of no
\* slab is the int 0.
CalculateIncentive ==
    /\ LET created == ~calc.exists
           waiver == calc.waiver_percentage
           incentive == ModelIncentive(disbursed, slabs)
           raises == created /\ incentive # 0
       IN  /\ calc' = IF raises THEN [calc EXCEPT !.exists = TRUE]
                      ELSE [exists |-> TRUE,
                            total_disbursed_amount |-> disbursed,
                            incentive_amount |-> incentive,
                            waiver_percentage |-> waiver,
                            final_incentive_x100 |-> FinalIncentiveX100(incentive, waiver),
                            is_calculated |-> TRUE]
           /\ iret' = [NoIret EXCEPT !.op = "calculate", !.amount = disbursed,
                                     !.raised = IF raises THEN "TypeError" ELSE "none",
                                     !.total_incentive = IF raises THEN 0 ELSE incentive]
    /\ UNCHANGED <<slabs, disbursed, nonIncentiveVars>>

\* sales_incentive_service.py:147-171, the loop from slab i on.  Amounts read
\* from IncentiveSlab are Decimal; for a slab without max_amount,
\* float('inf') - slab.min_amount raises TypeError.
RECURSIVE PreviewLoop(_, _, _, _, _)
PreviewLoop(ordered, i, remaining_amount, total_incentive, breakdown) ==
    IF i > Len(ordered) \/ remaining_amount <= 0
    THEN [raised |-> "none", total_incentive |-> total_incentive,
          breakdown |-> breakdown, remaining_amount |-> remaining_amount]
    ELSE LET slab == ordered[i]
         IN  IF remaining_amount >= slab.min_amount
             THEN IF ~slab.has_max
                  THEN [raised |-> "TypeError", total_incentive |-> total_incentive,
                        breakdown |-> breakdown, remaining_amount |-> remaining_amount]
                  ELSE LET slab_amount == Min(remaining_amount - slab.min_amount + 1,
                                              slab.max_amount - slab.min_amount + 1)
                           slab_incentive == slab_amount * slab.incentive_per_lac
                       IN  IF slab_amount > 0
                           THEN PreviewLoop(ordered, i + 1, remaining_amount - slab_amount,
                                    total_incentive + slab_incentive,
                                    Append(breakdown,
                                           [amount |-> slab_amount,
                                            rate |-> slab.incentive_per_lac,
                                            incentive |-> slab_incentive]))
                           ELSE PreviewLoop(ordered, i + 1, remaining_amount,
                                            total_incentive, breakdown)
             ELSE PreviewLoop(ordered, i + 1, remaining_amount, total_incentive, breakdown)

\* SalesIncentiveService.get_incentive_preview(loan_amount_lac) with a whole
\* number of Lac.  The return statement multiplies total_incentive by the
\* float 0.7: that raises TypeError once a slab has added its Decimal
\* incentive, and gives 0.0 while total_incentive is still the int 0.  The
\* fields of iret hold the locals at the return or at the raise.
GetIncentivePreview(loan_amount_lac) ==
    /\ LET out == PreviewLoop(OrderByMinAmount(ActiveSlabs(slabs)), 1,
                              loan_amount_lac, 0, <<>>)
           raised == IF out.raised # "none" THEN out.raised
                     ELSE IF out.breakdown # <<>> THEN "TypeError"
                     ELSE "none"
       IN  iret' = [op |-> "preview", amount |-> loan_amount_lac, raised |-> raised,
                    total_incentive |-> out.total_incentive,
                    breakdown |-> out.breakdown,
                    remaining_amount |-> out.remaining_amount]
    /\ UNCHANGED <<slabs, disbursed, calc, nonIncentiveVars>>

\* waiver percentages typed into IncentiveCalculationForm
WaiverInputs == {-1, 0, 100, 101}

\* IncentiveCalculationForm (fields employee, month, waiver_percentage) saved
\* for the month: the field's validators (sales_incentive_models.py:235)
\* reject a waiver outside 0..100; a valid form stores the waiver, on a new
\* row when the month has none
WaiverFormSave(w) ==
    /\ LET valid == 0 <= w /\ w <= 100
       IN  /\ calc' = IF valid THEN [calc EXCEPT !.exists = TRUE, !.waiver_percentage = w]
                      ELSE calc
           /\ iret' = [NoIret EXCEPT !.op = "waiver_form", !.amount = w,
                                     !.raised = IF valid THEN "none" ELSE "ValidationError"]
    /\ UNCHANGED <<slabs, disbursed, nonIncentiveVars>>

NextIncentive ==
    \/ InitSalesCommand
    \/ \E i \in 1..Len(DefaultSlabs), b \in BOOLEAN : AdminSetSlabActive(i, b)
    \/ \E a \in 1..MaxLead : DisburseLead(a)
    \/ CalculateIncentive
    \/ \E w \in WaiverInputs : WaiverFormSave(w)

SpecIncentive == InitIncentive /\ [][NextIncentive]_vars

\* SpecPreview: get_incentive_preview over the slab table the init command
\* and the admin leave
NextPreview ==
    \/ InitSalesCommand
    \/ \E i \in 1..Len(DefaultSlabs), b \in BOOLEAN : AdminSetSlabActive(i, b)
    \/ \E a \in -1..MaxPreview : GetIncentivePreview(a)

SpecPreview == InitIncentive /\ [][NextPreview]_vars

\* the tiered total of amount a over the active rows of a slab table
RECURSIVE TieredTotal(_, _, _)
TieredTotal(a, tbl, n) ==
    IF n = 0 THEN 0
    ELSE LET s == tbl[n]
         IN  TieredTotal(a, tbl, n - 1)
             + (IF s.is_active
                THEN PartInside(a, s.min_amount, s.has_max, s.max_amount) * s.incentive_per_lac
                ELSE 0)

\* C9: a calculate_incentive that completes sets incentive_amount to the tiered total of the
\* month's disbursed amount over the active slabs (7 Lac -> 2300 and
\* 10 Lac -> 3500 with the default slabs).
C9_ModelTiered ==
    [][(CalculateIncentive /\ iret'.raised = "none") =>
          calc'.incentive_amount = TieredTotal(disbursed, slabs, Len(slabs))]_vars

\* C25: over the same active slabs the incentive is monotone in the amount:
\* a calculate_incentive that completes for the month's disbursed amount b
\* sets an incentive_amount that is at least the incentive of every amount
\* a <= b.
C25_Monotone ==
    [][(CalculateIncentive /\ iret'.raised = "none") =>
          \A a \in 0..disbursed :
              ModelIncentive(a, slabs) <= calc'.incentive_amount]_vars

RECURSIVE SumIncentives(_)
SumIncentives(breakdown) ==
    IF breakdown = <<>> THEN 0
    ELSE Head(breakdown).incentive + SumIncentives(Tail(breakdown))

\* C11: with the default slabs all active, get_incentive_preview(a) for a
\* positive amount returns the total IncentiveValidator.calculate_incentive
\* gives for a (7 -> 2300, 10 -> 3500), and its breakdown sums to that total.
C11_PreviewMatches ==
    (iret.op = "preview" /\ iret.amount >= 1 /\ slabs = DefaultSlabs) =>
        /\ iret.raised = "none"
        /\ iret.total_incentive = ValidatorCalculateIncentive(iret.amount).total
        /\ SumIncentives(iret.breakdown) = iret.total_incentive

\* C12: get_incentive_preview with an amount <= 0 and calculate_incentive for
\* a month with nothing disbursed raise a validation error.
C12_NonPositiveRejected ==
    (iret.op \in {"preview", "calculate"} /\ iret.amount <= 0) =>
        iret.raised = "ValidationError"

is_holiday(target_date) == FALSE
is_company_leave(target_date) == FALSE

\* CallAttendanceService.is_working_day
is_working_day(target_date) ==
    IF target_date % 7 = 6 THEN FALSE
    ELSE IF is_holiday(target_date) \/ is_company_leave(target_date) THEN FALSE
    ELSE TRUE

\* get_active_config without its filter: the first config, active or not
FirstConfigs(cfgs) == {c \in cfgs : \A q \in cfgs : c.id <= q.id}

\* CallAttendanceService.get_active_config: filter(is_active=True).first();
\* the set holds the rows first() can return (the one of lowest id)
ActiveConfigs(cfgs) ==
    {c \in cfgs : c.is_active /\ \A q \in cfgs : q.is_active => c.id <= q.id}

\* the rows of a table with the key (employee_id, date)
RowsOf(tbl, employee_id, d) == {r \in tbl : r.employee_id = employee_id /\ r.date = d}

\* CallAttendanceService.can_update_attendance: superuser, or a job position
\* whose name contains 'team leader', 'manager' or 'tl', or the permission
can_update_attendance(user) ==
    \/ IsSuperuser(user)
    \/ JobPosition(user) \in {"team leader", "manager", "tl"}
    \/ HasPerm(user)

\* update_or_create written as a plain create(): a second row for the key
CreateOnly(tbl, employee_id, d, defaults) ==
    tbl \cup {[employee_id |-> employee_id, date |-> d] @@ defaults}

\* objects.update_or_create(employee_id, date, defaults) on the rows of a table
\* keyed by (employee_id, date_field value stored under "date")
UpdateOrCreate(tbl, employee_id, d, defaults) ==
    {r \in tbl : ~(r.employee_id = employee_id /\ r.date = d)}
    \cup {[employee_id |-> employee_id, date |-> d] @@ defaults}

\* CallLogService.create_call_log, the table it leaves
CreateCallLogRows(tbl, employee, call_date, call_duration_minutes, call_count, source) ==
    UpdateOrCreate(tbl, employee, call_date,
                   [call_duration_minutes |-> call_duration_minutes,
                    call_count |-> call_count,
                    source |-> source])

CreateCallLog(employee, call_date, call_duration_minutes, call_count) ==
    /\ Tick
    /\ callLogs' = CreateCallLogRows(callLogs, employee, call_date,
                                     call_duration_minutes, call_count, "MANUAL")
    /\ ret' = [NoRet EXCEPT !.op = "create_call_log", !.date = call_date]
    /\ UNCHANGED <<attendance, audits, configs, nonAttendanceVars>>

\* CallAttendanceConfig.save without the deactivation of the active rows
SaveConfigRowsKeepActive(cfgs, id, th, is_active) ==
    {c \in cfgs : c.id # id}
    \cup {[id |-> id, full_day_minutes |-> th[1], half_day_minutes |-> th[2],
           absent_threshold_minutes |-> th[3], is_active |-> is_active]}

\* CallAttendanceConfig.save for the row with this id (a new row when there
\* is none), with the field values given
SaveConfigRows(cfgs, id, th, is_active) ==
    LET deactivated == IF is_active
                       THEN {[c EXCEPT !.is_active = FALSE] : c \in cfgs}
                       ELSE cfgs
    IN  {c \in deactivated : c.id # id}
        \cup {[id |-> id, full_day_minutes |-> th[1], half_day_minutes |-> th[2],
               absent_threshold_minutes |-> th[3], is_active |-> is_active]}

SaveConfig(id, th, is_active) ==
    /\ Tick
    /\ configs' = SaveConfigRows(configs, id, th, is_active)
    /\ ret' = [NoRet EXCEPT !.op = "save_config"]
    /\ UNCHANGED <<callLogs, attendance, audits, nonAttendanceVars>>

\* the employees with a call log on the date, in the order the loop visits them
RECURSIVE InOrder(_)
InOrder(S) ==
    IF S = {} THEN <<>>
    ELSE LET e == CHOOSE x \in S : \A y \in S : x <= y
         IN  <<e>> \o InOrder(S \ {e})

\* calculate_daily_attendance skipping nothing: the MANUAL check left out
ExistingManualNever(att, employee_id, target_date) == {}

\* services.py:107-111, the MANUAL rows of the key
ExistingManual(att, employee_id, target_date) ==
    {r \in att : r.employee_id = employee_id /\ r.date = target_date /\ r.source = "MANUAL"}

\* services.py:127-134 with the call log's minutes added to the stored ones
AutoUpsertAccumulate(att, call_log, status) ==
    LET found == {r \in att : r.employee_id = call_log.employee_id /\ r.date = call_log.date}
        before == IF found = {} THEN 0 ELSE (CHOOSE r \in found : TRUE).call_duration_minutes
    IN  UpdateOrCreate(att, call_log.employee_id, call_log.date,
                       [call_duration_minutes |-> before + call_log.call_duration_minutes,
                        call_count |-> call_log.call_count,
                        attendance_status |-> status,
                        source |-> "AUTO", manual_reason |-> "None", updated_by |-> 0])

\* services.py:124-135, the AUTO upsert for one call log
AutoUpsert(att, call_log, status) ==
    UpdateOrCreate(att, call_log.employee_id, call_log.date,
                   [call_duration_minutes |-> call_log.call_duration_minutes,
                    call_count |-> call_log.call_count,
                    attendance_status |-> status,
                    source |-> "AUTO", manual_reason |-> "None", updated_by |-> 0])

\* services.py:105-136, the loop over the call logs still to visit
RECURSIVE ReconcileLoop(_, _, _, _, _)
ReconcileLoop(todo, logs, config, target_date, acc) ==
    IF todo = <<>> THEN acc
    ELSE LET call_log == CHOOSE l \in logs :
                             l.employee_id = Head(todo) /\ l.date = target_date
         IN  IF ExistingManual(acc.att, call_log.employee_id, target_date) # {}
             THEN ReconcileLoop(Tail(todo), logs, config, target_date,
                      [acc EXCEPT !.skipped = @ + 1,
                                  !.skipped_ids = @ \cup {call_log.employee_id}])
             ELSE LET status == calculate_attendance_status(
                                    call_log.call_duration_minutes, config)
                  IN  ReconcileLoop(Tail(todo), logs, config, target_date,
                          [acc EXCEPT !.att = AutoUpsert(@, call_log, status),
                                      !.processed = @ + 1,
                                      !.processed_ids = @ \cup {call_log.employee_id}])

\* history kept with the result: the call before this one was a successful
\* calculate_daily_attendance for the same date
Repeats(target_date) ==
    ret.op = "calculate" /\ ret.date = target_date /\ ret.reason = "Success"

\* CallAttendanceService.calculate_daily_attendance(target_date)
CalculateDailyAttendance(target_date) ==
    /\ Tick
    /\ IF ~is_working_day(target_date)
       THEN /\ ret' = [NoRet EXCEPT !.op = "calculate", !.date = target_date,
                                    !.reason = "Non-working day"]
            /\ UNCHANGED <<dbVars, nonAttendanceVars>>
       ELSE IF ActiveConfigs(configs) = {}
       THEN /\ ret' = [NoRet EXCEPT !.op = "calculate", !.date = target_date,
                                    !.reason = "ValidationError"]
            /\ UNCHANGED <<dbVars, nonAttendanceVars>>
       ELSE \E config \in ActiveConfigs(configs) :
            LET call_logs == {l \in callLogs : l.date = target_date}
                out == ReconcileLoop(InOrder({l.employee_id : l \in call_logs}),
                                     call_logs, config, target_date,
                                     [att |-> attendance, processed |-> 0, skipped |-> 0,
                                      processed_ids |-> {}, skipped_ids |-> {}])
            IN  /\ attendance' = out.att
                /\ ret' = [op |-> "calculate", date |-> target_date, reason |-> "Success",
                           processed |-> out.processed, skipped |-> out.skipped,
                           processed_ids |-> out.processed_ids,
                           skipped_ids |-> out.skipped_ids,
                           repeat |-> Repeats(target_date)]
                /\ UNCHANGED <<callLogs, audits, configs, nonAttendanceVars>>

\* the (duration, count, status) of a row
Triple(r) == <<r.call_duration_minutes, r.call_count, r.attendance_status>>

\* services.py:227-236, get_or_create: the row found, or the default row created
GetOrCreateAttendance(att, employee_id, attendance_date) ==
    LET found == {r \in att : r.employee_id = employee_id /\ r.date = attendance_date}
    IN  IF found # {} THEN CHOOSE r \in found : TRUE
        ELSE [employee_id |-> employee_id, date |-> attendance_date,
              call_duration_minutes |-> 0, call_count |-> 0,
              attendance_status |-> "ABSENT", source |-> "AUTO",
              manual_reason |-> "None", updated_by |-> 0]

\* the audit row with the new values written as the old ones
AuditRowOldIsNew(old, employee_id, attendance_date, call_duration, call_count, new_status, updated_by) ==
    [employee_id |-> employee_id, date |-> attendance_date,
     old_call_duration |-> call_duration, old_call_count |-> call_count,
     old_status |-> new_status,
     new_call_duration |-> call_duration, new_call_count |-> call_count,
     new_status |-> new_status,
     reason |-> "Manual update", updated_by |-> updated_by, timestamp |-> today]

\* services.py:253-265, the audit row created
AuditRow(old, employee_id, attendance_date, call_duration, call_count, new_status, updated_by) ==
    [employee_id |-> employee_id, date |-> attendance_date,
     old_call_duration |-> old.call_duration_minutes, old_call_count |-> old.call_count,
     old_status |-> old.attendance_status,
     new_call_duration |-> call_duration, new_call_count |-> call_count,
     new_status |-> new_status,
     reason |-> "Manual update", updated_by |-> updated_by, timestamp |-> today]

\* services.py:244-250, the row saved
ManualRow(row, call_duration, call_count, new_status, updated_by) ==
    [row EXCEPT !.call_duration_minutes = call_duration,
                !.call_count = call_count,
                !.attendance_status = new_status,
                !.source = "MANUAL",
                !.manual_reason = "Manual update",
                !.updated_by = updated_by]

\* CallAttendanceService.manual_update_attendance
ManualUpdateAttendance(employee_id, attendance_date, call_duration, call_count, user) ==
    /\ Tick
    /\ IF ~can_update_attendance(user)
       THEN /\ ret' = [NoRet EXCEPT !.op = "manual_update", !.date = attendance_date,
                                    !.reason = "PermissionDenied"]
            /\ UNCHANGED <<dbVars, nonAttendanceVars>>
       ELSE IF ActiveConfigs(configs) = {}
       THEN /\ ret' = [NoRet EXCEPT !.op = "manual_update", !.date = attendance_date,
                                    !.reason = "ValidationError"]
            /\ UNCHANGED <<dbVars, nonAttendanceVars>>
       ELSE \E config \in ActiveConfigs(configs) :
            LET updated_by == EmployeeGet(user)
                new_status == calculate_attendance_status(call_duration, config)
                row == GetOrCreateAttendance(attendance, employee_id, attendance_date)
            IN  /\ attendance' =
                       {r \in attendance :
                            ~(r.employee_id = employee_id /\ r.date = attendance_date)}
                       \cup {ManualRow(row, call_duration, call_count, new_status, updated_by)}
                /\ audits' = Append(audits,
                       AuditRow(row, employee_id, attendance_date,
                                call_duration, call_count, new_status, updated_by))
                /\ ret' = [NoRet EXCEPT !.op = "manual_update", !.date = attendance_date,
                                        !.reason = "Success"]
                /\ UNCHANGED <<callLogs, configs, nonAttendanceVars>>

\* the reasons the manual-update form is posted with
Reasons == {"", "see log", "calls were logged on paper"}

\* the (call_duration_minutes, call_count) pairs the form is posted with
ViewInputs == {<<2, 1>>}

\* base.templatetags.basefilters.is_reportingmanager: some employee reports
\* to the user's employee
is_reportingmanager(user) ==
    \E e \in Employees : ReportingManager(e) = EmployeeGet(user)

\* RoleValidator.can_update_attendance; has_perm('attendance.change_callattendance')
\* holds of the superuser alone
RoleCanUpdateAttendance(user) ==
    IsSuperuser(user) \/ HasPerm(user) \/ is_reportingmanager(user)

\* RoleValidator.get_accessible_employees
get_accessible_employees(user) ==
    IF IsSuperuser(user) THEN Employees \cup {EmployeeGet(u) : u \in Users}
    ELSE IF is_reportingmanager(user)
    THEN {e \in Employees : ReportingManager(e) = EmployeeGet(user)}
    ELSE {EmployeeGet(user)}

\* AttendanceValidator.validate_manual_update: TRUE when no error is found
validate_manual_update(employee_id, attendance_date, call_duration, call_count, reason, user) ==
    /\ employee_id \in get_accessible_employees(user)
    /\ attendance_date % 7 # 6
    /\ call_duration >= 0
    /\ call_count >= 0
    /\ reason # "" /\ Len(reason) >= 10

\* the manual-update view, views.py:243-335, on a POST whose form is valid.
\* The validator rejects with SalesValidationError (role, data, or a
\* submission repeated within the 60 seconds the cache keeps its key); past
\* it, get_or_create is given the default loan_amount, which CallAttendance
\* has no field for, so creating the row raises FieldError, and on a row that
\* exists assigning request.user to updated_by raises ValueError before
\* save().  Every outcome is caught and reported; nothing is written.
ManualUpdateView(employee_id, attendance_date, call_duration, call_count, reason, user) ==
    /\ Tick
    /\ \E duplicate \in BOOLEAN :
           ret' = [NoRet EXCEPT
                     !.op = "manual_update_view", !.date = attendance_date,
                     !.reason =
                        IF \/ ~RoleCanUpdateAttendance(user)
                           \/ ~validate_manual_update(employee_id, attendance_date,
                                                      call_duration, call_count, reason, user)
                           \/ duplicate
                        THEN "SalesValidationError"
                        ELSE IF RowsOf(attendance, employee_id, attendance_date) = {}
                        THEN "FieldError"
                        ELSE "ValueError"]
    /\ UNCHANGED <<dbVars, nonAttendanceVars>>

Init ==
    /\ AttendanceIdle
    /\ ClassifyIdle
    /\ ValidatorIdle
    /\ IncentiveIdle
    /\ ClockIdle
    /\ ExpenseIdle

Next ==
    \/ \E k \in Keys, in \in CallInputs : CreateCallLog(k[1], k[2], in[1], in[2])
    \/ \E id \in ConfigIds, th \in ThresholdChoices, a \in BOOLEAN : SaveConfig(id, th, a)
    \/ \E d \in Dates : CalculateDailyAttendance(d)
    \/ \E k \in Keys, in \in CallInputs, u \in Callers :
           ManualUpdateAttendance(k[1], k[2], in[1], in[2], u)

Spec == Init /\ [][Next]_vars

(***************************************************************************)
(* SpecManual: every operation that writes or deletes a CallAttendance or  *)
(* an audit row, called by every kind of user: reconciliation, the manual  *)
(* update through the service and through the view, the admin's delete     *)
(* views and the test-data cleanup.  The retention cleanup                 *)
(* (cleanup_old_audit_logs) is left out: the behaviours are those in which *)
(* it is never run.                                                        *)
(***************************************************************************)
\* the audit rows that reference none of the CallAttendance rows deleted:
\* CallAttendanceAudit.call_attendance is on_delete=CASCADE
Cascade(aud, deleted) ==
    SelectSeq(aud, LAMBDA a :
        ~\E r \in deleted : r.employee_id = a.employee_id /\ r.date = a.date)

\* the sequence without its i-th element
RemoveAt(seq, i) == SubSeq(seq, 1, i - 1) \o SubSeq(seq, i + 1, Len(seq))

\* the admin's delete view of CallAttendance, by a superuser (the other users
\* of the model are not staff): the row goes, and its audit rows with it
AdminDeleteAttendance(employee_id, d, user) ==
    /\ Tick
    /\ LET deleted == RowsOf(attendance, employee_id, d)
       IN  IF ~IsSuperuser(user)
           THEN /\ ret' = [NoRet EXCEPT !.op = "admin_delete_attendance", !.date = d,
                                        !.reason = "PermissionDenied"]
                /\ UNCHANGED <<dbVars, nonAttendanceVars>>
           ELSE IF deleted = {}
           THEN /\ ret' = [NoRet EXCEPT !.op = "admin_delete_attendance", !.date = d,
                                        !.reason = "DoesNotExist"]
                /\ UNCHANGED <<dbVars, nonAttendanceVars>>
           ELSE /\ attendance' = attendance \ deleted
                /\ audits' = Cascade(audits, deleted)
                /\ ret' = [NoRet EXCEPT !.op = "admin_delete_attendance", !.date = d,
                                        !.reason = "Success"]
                /\ UNCHANGED <<callLogs, configs, nonAttendanceVars>>

\* the admin's delete view of CallAttendanceAudit: has_delete_permission is
\* request.user.is_superuser
AdminDeleteAudit(i, user) ==
    /\ Tick
    /\ i \in 1..Len(audits)
    /\ IF ~IsSuperuser(user)
       THEN /\ ret' = [NoRet EXCEPT !.op = "admin_delete_audit", !.date = audits[i].date,
                                    !.reason = "PermissionDenied"]
            /\ UNCHANGED <<dbVars, nonAttendanceVars>>
       ELSE /\ audits' = RemoveAt(audits, i)
            /\ ret' = [NoRet EXCEPT !.op = "admin_delete_audit", !.date = audits[i].date,
                                    !.reason = "Success"]
            /\ UNCHANGED <<callLogs, attendance, configs, nonAttendanceVars>>

\* cleanup_test_data, test_date the day it is run for: the TEST call logs and
\* the AUTO records of test_date are deleted, audit rows of those records
\* with them
CleanupTestData(test_date) ==
    /\ Tick
    /\ LET deleted == {r \in attendance : r.date = test_date /\ r.source = "AUTO"}
       IN  /\ callLogs' = {l \in callLogs : l.source # "TEST"}
           /\ attendance' = attendance \ deleted
           /\ audits' = Cascade(audits, deleted)
    /\ ret' = [NoRet EXCEPT !.op = "cleanup_test_data", !.date = test_date]
    /\ UNCHANGED <<configs, nonAttendanceVars>>

\* the (call_duration_minutes, call_count) pairs of the manual updates
ManualInputs == {<<0, 0>>, <<3, 2>>}

NextManual ==
    \/ \E k \in Keys, in \in ManualInputs : CreateCallLog(k[1], k[2], in[1], in[2])
    \/ \E th \in ThresholdChoices : SaveConfig(1, th, TRUE)
    \/ \E d \in Dates : CalculateDailyAttendance(d)
    \/ \E k \in Keys, in \in ManualInputs, u \in Users :
           ManualUpdateAttendance(k[1], k[2], in[1], in[2], u)
    \/ \E k \in Keys, in \in ViewInputs, reason \in Reasons, u \in Users :
           ManualUpdateView(k[1], k[2], in[1], in[2], reason, u)
    \/ \E k \in Keys, u \in Users : AdminDeleteAttendance(k[1], k[2], u)
    \/ \E i \in 1..MaxOps, u \in Users : AdminDeleteAudit(i, u)
    \/ \E d \in Dates : CleanupTestData(d)

SpecManual == Init /\ [][NextManual]_vars

(***************************************************************************)
(* SpecCommand: the calculate_call_attendance management command run for   *)
(* one date (--date), with and without --force.                            *)
(***************************************************************************)
\* Command.handle for target_dates = [target_date]: without --force a
\* non-working day is skipped by the command itself; otherwise the service
\* is called, and what it raises is caught and written out
CommandHandle(target_date, force) ==
    IF ~force /\ ~is_working_day(target_date)
    THEN /\ Tick
         /\ ret' = [NoRet EXCEPT !.op = "command", !.date = target_date,
                                 !.reason = "Skipping"]
         /\ UNCHANGED <<dbVars, nonAttendanceVars>>
    ELSE CalculateDailyAttendance(target_date)

NextCommand ==
    \/ \E k \in Keys, in \in CallInputs : CreateCallLog(k[1], k[2], in[1], in[2])
    \/ \E th \in ThresholdChoices, a \in BOOLEAN : SaveConfig(1, th, a)
    \/ \E d \in Dates, force \in BOOLEAN : CommandHandle(d, force)

SpecCommand == Init /\ [][NextCommand]_vars

(***************************************************************************)
(* SpecRetention: manual updates recorded on different days, and the       *)
(* retention cleanup cleanup_old_audit_logs.                               *)
(***************************************************************************)
\* the values of days_to_keep the cleanup is run with
KeepDays == {1, 2}

InitRetention ==
    /\ AttendanceIdle
    /\ ClassifyIdle
    /\ ValidatorIdle
    /\ IncentiveIdle
    /\ today = 6
    /\ ExpenseIdle

\* midnight passes
AdvanceDay ==
    /\ today < MaxDay
    /\ today' = today + 1
    /\ UNCHANGED <<dbVars, ret, ops, classifyVars, validatorVars, incentiveVars, txn, expenseVars>>

\* scheduler.py:223-239: the audit rows whose attendance_date is before
\* today - days_to_keep are deleted; the count deleted is returned
CleanupOldAuditLogs(days_to_keep) ==
    /\ Tick
    /\ LET cutoff_date == today - days_to_keep
           kept == SelectSeq(audits, LAMBDA a : ~(a.date < cutoff_date))
       IN  /\ audits' = kept
           /\ ret' = [NoRet EXCEPT !.op = "cleanup_old_audit_logs",
                                   !.processed = Len(audits) - Len(kept)]
    /\ UNCHANGED <<callLogs, attendance, configs, nonAttendanceVars>>

NextRetention ==
    \/ \E th \in ThresholdChoices : SaveConfig(1, th, TRUE)
    \/ \E k \in Keys, in \in ManualInputs :
           ManualUpdateAttendance(k[1], k[2], in[1], in[2], "admin")
    \/ AdvanceDay
    \/ \E days_to_keep \in KeepDays : CleanupOldAuditLogs(days_to_keep)

SpecRetention == InitRetention /\ [][NextRetention]_vars

(***************************************************************************)
(* SpecWriters: the operations that write CallAttendance rows, among them  *)
(* the admin's recalculate action and the create_sample_call_attendance    *)
(* command.                                                                *)
(***************************************************************************)
\* the (call_duration, call_count) pairs random.randint is taken to return
SampleInputs == {<<60, 3>>, <<240, 30>>}

\* create_sample_call_attendance.py:54-59, the status of a sample record
SampleStatus(call_duration) ==
    IF call_duration >= 240 THEN "PRESENT"
    ELSE IF call_duration >= 120 THEN "HALF_DAY"
    ELSE "ABSENT"

\* create_sample_call_attendance.py:62-71, update_or_create: the four
\* defaults are written over the row found, or a new row is created
SampleRow(att, employee_id, attendance_date, in) ==
    [GetOrCreateAttendance(att, employee_id, attendance_date) EXCEPT
        !.call_duration_minutes = in[1],
        !.call_count = in[2],
        !.attendance_status = SampleStatus(in[1]),
        !.source = "AUTO"]

\* create_sample_call_attendance --days 1 --employees num_employees, run on
\* the day run_date: one record per employee, of random duration and count
CreateSampleCallAttendance(run_date, num_employees) ==
    /\ Tick
    /\ \E in \in [1..num_employees -> SampleInputs] :
           attendance' =
               {r \in attendance : ~(r.employee_id \in 1..num_employees /\ r.date = run_date)}
               \cup {SampleRow(attendance, e, run_date, in[e]) : e \in 1..num_employees}
    /\ ret' = [NoRet EXCEPT !.op = "create_sample", !.date = run_date]
    /\ UNCHANGED <<callLogs, audits, configs, nonAttendanceVars>>

\* the admin action recalculate_attendance_status on the rows of the
\* employees selected: the status of each AUTO row is recomputed from the
\* active config
RecalculateAttendanceStatus(selected) ==
    /\ Tick
    /\ IF ActiveConfigs(configs) = {}
       THEN /\ ret' = [NoRet EXCEPT !.op = "recalculate", !.reason = "No active configuration"]
            /\ UNCHANGED <<dbVars, nonAttendanceVars>>
       ELSE \E config \in ActiveConfigs(configs) :
            LET queryset == {r \in attendance : r.employee_id \in selected} IN
            /\ attendance' =
                   {IF r \in queryset /\ r.source = "AUTO"
                    THEN [r EXCEPT !.attendance_status =
                             calculate_attendance_status(r.call_duration_minutes, config)]
                    ELSE r : r \in attendance}
            /\ ret' = [NoRet EXCEPT !.op = "recalculate", !.reason = "Success"]
            /\ UNCHANGED <<callLogs, audits, configs, nonAttendanceVars>>

NextWriters ==
    \/ \E e \in Employees, in \in ManualInputs : CreateCallLog(e, 5, in[1], in[2])
    \/ \E th \in ThresholdChoices : SaveConfig(1, th, TRUE)
    \/ CalculateDailyAttendance(5)
    \/ \E e \in Employees, in \in ManualInputs :
           ManualUpdateAttendance(e, 5, in[1], in[2], "admin")
    \/ \E n \in Employees : CreateSampleCallAttendance(5, n)
    \/ \E selected \in SUBSET Employees : RecalculateAttendanceStatus(selected)

SpecWriters == Init /\ [][NextWriters]_vars

(***************************************************************************)
(* Claims checked under Spec.                                              *)
(***************************************************************************)
\* a step of Spec that is a call of calculate_daily_attendance
CalculateStep == ops' # ops /\ ret'.op = "calculate"

\* C1 as stated: every run of calculate_daily_attendance(D) on a working day
\* leaves a MANUAL record of D unchanged and counts it in skipped, not in
\* processed.
C1_Original ==
    [][(CalculateStep /\ is_working_day(ret'.date)) =>
          \A r \in attendance :
              (r.source = "MANUAL" /\ r.date = ret'.date) =>
                  /\ RowsOf(attendance', r.employee_id, r.date) = {r}
                  /\ r.employee_id \in ret'.skipped_ids
                  /\ r.employee_id \notin ret'.processed_ids]_vars

\* C1 as amended: every run leaves a MANUAL record of D unchanged and never
\* counts it in processed; a run that completes counts it in skipped exactly
\* when a call log exists for (E, D), once per record.
C1_ManualDurable ==
    [][(CalculateStep /\ is_working_day(ret'.date)) =>
          /\ ret'.skipped = Cardinality(ret'.skipped_ids)
          /\ ret'.processed = Cardinality(ret'.processed_ids)
          /\ \A r \in attendance :
                 (r.source = "MANUAL" /\ r.date = ret'.date) =>
                     /\ RowsOf(attendance', r.employee_id, r.date) = {r}
                     /\ r.employee_id \notin ret'.processed_ids
                     /\ ret'.reason = "Success" =>
                            (r.employee_id \in ret'.skipped_ids
                                <=> RowsOf(callLogs, r.employee_id, r.date) # {})
                     /\ ret'.reason # "Success" => ret'.skipped_ids = {}]_vars

\* a run that skipped a MANUAL record whose values differ from its call log
\* and processed another employee's call log
C1_Witness ==
    /\ ret.op = "calculate" /\ ret.reason = "Success"
    /\ ret.processed = 1 /\ ret.skipped = 1
    /\ \E r \in attendance, l \in callLogs :
           /\ r.source = "MANUAL" /\ r.date = ret.date
           /\ r.employee_id \in ret.skipped_ids
           /\ l.employee_id = r.employee_id /\ l.date = r.date
           /\ l.call_duration_minutes # r.call_duration_minutes

\* C3: a successful manual_update_attendance(E, D, duration, count, actor)
\* appends exactly one audit row for (E, D) whose old triple is the record's
\* triple before the call ((0, 0, ABSENT) when there was no record) and whose
\* new triple is the triple written to the record.
C3_OneAuditRow ==
    [][\A k \in Keys, in \in CallInputs, u \in Users :
          (ManualUpdateAttendance(k[1], k[2], in[1], in[2], u) /\ ret'.reason = "Success") =>
              /\ Len(audits') = Len(audits) + 1
              /\ SubSeq(audits', 1, Len(audits)) = audits
              /\ LET a == audits'[Len(audits')]
                     before == RowsOf(attendance, k[1], k[2])
                     old == IF before = {} THEN <<0, 0, "ABSENT">>
                            ELSE Triple(CHOOSE r \in before : TRUE)
                 IN  /\ a.employee_id = k[1] /\ a.date = k[2]
                     /\ <<a.old_call_duration, a.old_call_count, a.old_status>> = old
                     /\ a.new_call_duration = in[1] /\ a.new_call_count = in[2]
                     /\ \E r \in attendance' :
                            /\ RowsOf(attendance', k[1], k[2]) = {r}
                            /\ r.source = "MANUAL"
                            /\ Triple(r) = <<a.new_call_duration, a.new_call_count, a.new_status>>
                            /\ \E c \in ActiveConfigs(configs) :
                                   a.new_status = calculate_attendance_status(in[1], c)]_vars

\* an audit row whose duration changed inside one status bucket
C3_Witness ==
    /\ ret.op = "manual_update" /\ ret.reason = "Success"
    /\ Len(audits) >= 1
    /\ LET a == audits[Len(audits)]
       IN  /\ a.old_status = a.new_status
           /\ a.old_status = "PRESENT"
           /\ a.old_call_duration # a.new_call_duration

\* C6: a second calculate_daily_attendance(D) right after a successful one,
\* with no MANUAL record on D, leaves the CallAttendance rows as they are and
\* returns the same processed count; no run adds an audit row.
C6_Idempotent ==
    [][CalculateStep =>
          /\ audits' = audits
          /\ (/\ ret'.repeat
              /\ ret'.reason = "Success"
              /\ \A r \in attendance : r.date = ret'.date => r.source # "MANUAL")
                 => /\ attendance' = attendance
                    /\ ret'.processed = ret.processed]_vars

\* a second run that processed a call log
C6_Witness ==
    /\ ret.op = "calculate" /\ ret.reason = "Success" /\ ret.repeat
    /\ ret.processed >= 1
    /\ \A r \in attendance : r.date = ret.date => r.source = "AUTO"

\* C7: after calculate_daily_attendance(D) completes, every call log of D
\* whose key had no MANUAL record has exactly one CallAttendance: AUTO, with
\* the call log's duration and count, no reason, no updated_by, and the status
\* the active config gives; and create_call_log leaves exactly one call log
\* for its key, holding the values passed.
C7_AutoRecord ==
    [][/\ (CalculateStep /\ ret'.reason = "Success") =>
              \A l \in callLogs :
                  (/\ l.date = ret'.date
                   /\ \A r \in RowsOf(attendance, l.employee_id, l.date) : r.source # "MANUAL")
                  => \E c \in ActiveConfigs(configs) :
                         RowsOf(attendance', l.employee_id, l.date) =
                             {[employee_id |-> l.employee_id, date |-> l.date,
                               call_duration_minutes |-> l.call_duration_minutes,
                               call_count |-> l.call_count,
                               attendance_status |->
                                   calculate_attendance_status(l.call_duration_minutes, c),
                               source |-> "AUTO", manual_reason |-> "None",
                               updated_by |-> 0]}
       /\ \A k \in Keys, in \in CallInputs :
              CreateCallLog(k[1], k[2], in[1], in[2]) =>
                  /\ \E l \in callLogs' :
                         /\ RowsOf(callLogs', k[1], k[2]) = {l}
                         /\ l.call_duration_minutes = in[1] /\ l.call_count = in[2]
                  /\ \A l \in callLogs :
                         (l.employee_id # k[1] \/ l.date # k[2]) => l \in callLogs']_vars

\* a run that replaced an AUTO record computed from an earlier call log
C7_Witness ==
    /\ ret.op = "calculate" /\ ret.reason = "Success" /\ ret.processed >= 1
    /\ \E r \in attendance, l \in callLogs :
           /\ l.employee_id = r.employee_id /\ l.date = r.date /\ r.date = ret.date
           /\ r.source = "AUTO" /\ r.attendance_status = "HALF_DAY"
           /\ r.call_duration_minutes = l.call_duration_minutes


\* the actors the specification lets update employee E by hand: a superuser,
\* E's direct reporting manager, a holder of the permission
Authorized(user, employee_id) ==
    \/ IsSuperuser(user)
    \/ ReportingManager(employee_id) = EmployeeGet(user)
    \/ HasPerm(user)

\* C17: manual_update_attendance on employee E by an actor who is neither a
\* superuser, nor E's direct reporting manager, nor a holder of the
\* permission is refused: the call does not succeed (the refusal the claim
\* names is PermissionDenied) and no CallAttendance or audit row is created
\* or changed.
C17_OnlyAuthorized ==
    [][\A k \in Keys, in \in CallInputs, u \in Users :
          (ManualUpdateAttendance(k[1], k[2], in[1], in[2], u) /\ ~Authorized(u, k[1])) =>
              /\ ret'.reason # "Success"
              /\ UNCHANGED <<attendance, audits>>]_vars

\* C18: a step that stores a new or changed CallAttendance row with source
\* MANUAL stores a non-empty manual_reason that the updating actor supplied:
\* the step is a manual update requested with that reason.
C18_ReasonSupplied ==
    [][\A r \in attendance' :
          (r \notin attendance /\ r.source = "MANUAL") =>
              /\ r.manual_reason \notin {"", "None"}
              /\ \E k \in Keys, in \in ViewInputs, u \in Users :
                     ManualUpdateView(k[1], k[2], in[1], in[2], r.manual_reason, u)]_vars

\* the part of C18 the code keeps: every CallAttendance with source MANUAL
\* has a non-empty manual_reason
ManualHasReason ==
    \A r \in attendance : r.source = "MANUAL" => r.manual_reason \notin {"", "None"}

\* C20: with no active CallAttendanceConfig, calculate_daily_attendance on a
\* working day, and manual_update_attendance by an actor who passes the role
\* check, fail with the ValidationError "no active configuration" and leave
\* every CallAttendance, CallLog and audit row unchanged.
C20_NoConfigFails ==
    [][(~\E c \in configs : c.is_active) =>
          /\ \A d \in Dates :
                 (CalculateDailyAttendance(d) /\ is_working_day(d)) =>
                     /\ ret'.reason = "ValidationError"
                     /\ UNCHANGED <<callLogs, attendance, audits>>
          /\ \A k \in Keys, in \in CallInputs, u \in Users :
                 (ManualUpdateAttendance(k[1], k[2], in[1], in[2], u)
                  /\ can_update_attendance(u)) =>
                     /\ ret'.reason = "ValidationError"
                     /\ UNCHANGED <<callLogs, attendance, audits>>]_vars

C20_Witness ==
    /\ ~\E c \in configs : c.is_active
    /\ ret.op = "calculate" /\ is_working_day(ret.date) /\ ret.reason = "ValidationError"
    /\ callLogs # {}
    /\ attendance # {}
    /\ audits # <<>>

\* C21: a run of the command with --force for a non-working date that has
\* call logs and no MANUAL record, under an active config, leaves an AUTO
\* CallAttendance record of that date for every call log of the date.
C21_ForceCalculates ==
    [][\A d \in Dates :
          (/\ CommandHandle(d, TRUE)
           /\ ~is_working_day(d)
           /\ ActiveConfigs(configs) # {}
           /\ \E l \in callLogs : l.date = d
           /\ ~\E r \in attendance : r.date = d /\ r.source = "MANUAL") =>
              \A l \in callLogs : l.date = d =>
                  \E r \in attendance' :
                      /\ r.employee_id = l.employee_id /\ r.date = d
                      /\ r.source = "AUTO"
                      /\ r.call_duration_minutes = l.call_duration_minutes]_vars

\* C22: no step changes the source of an existing CallAttendance record from
\* MANUAL to AUTO: the record of a key that is MANUAL is MANUAL after the step.
C22_ManualStaysManual ==
    [][\A r \in attendance : r.source = "MANUAL" =>
          \A q \in attendance' :
              (q.employee_id = r.employee_id /\ q.date = r.date) => q.source = "MANUAL"]_vars

\* C24: cleanup_old_audit_logs(days_to_keep) deletes exactly the audit rows
\* recorded before the cutoff today - days_to_keep, whatever attendance date
\* they describe, keeps the others, and returns the number deleted.
C24_CleanupByAge ==
    [][\A days_to_keep \in KeepDays :
          CleanupOldAuditLogs(days_to_keep) =>
              /\ audits' = SelectSeq(audits,
                               LAMBDA a : ~(a.timestamp < today - days_to_keep))
              /\ ret'.processed = Len(audits) - Len(audits')]_vars

\* the positions of the audit rows of a key; the rows are kept in the order
\* they were recorded, which is the order of their timestamps
AuditsOf(aud, employee_id, d) ==
    {i \in 1..Len(aud) : aud[i].employee_id = employee_id /\ aud[i].date = d}

\* C26: for every CallAttendance with source MANUAL that has audit rows, the
\* newest audit row of its (employee, date) has new (duration, count, status)
\* equal to the record's current (duration, count, status).
C26_NewestAuditMatches ==
    \A r \in attendance :
        LET own == AuditsOf(audits, r.employee_id, r.date)
        IN  (r.source = "MANUAL" /\ own # {}) =>
                LET a == audits[CHOOSE i \in own : \A j \in own : j <= i]
                IN  Triple(r) = <<a.new_call_duration, a.new_call_count, a.new_status>>

\* C19: without the retention cleanup the audit trail only grows: every
\* step keeps every audit row there was, with its contents, and at most
\* appends to them.
C19_AppendOnly ==
    [][/\ Len(audits') >= Len(audits)
       /\ SubSeq(audits', 1, Len(audits)) = audits]_vars

(***************************************************************************)
(* SpecConfig: the ways a CallAttendanceConfig row is written, one whole   *)
(* call per step: save() / objects.create with any values, the admin's     *)
(* model form, and sync_call_attendance_config.                            *)
(***************************************************************************)
\* thresholds handed to save(), typed into the admin form, or held by the
\* active sales config: two ordered triples and two that break the ordering
ConfigInputs == ThresholdChoices \cup {<<1, 2, 0>>, <<2, 2, 1>>}

\* CallAttendanceConfig.clean
ConfigClean(th) == th[1] > th[2] /\ th[2] > th[3]

ActiveRows(cfgs) == {c \in cfgs : c.is_active}

\* CallAttendanceConfigAdmin: the add form is offered only while no config is
\* active; the model form runs clean() and saves a valid row
AdminSaveConfig(id, th, is_active) ==
    /\ Tick
    /\ (\A c \in configs : c.id # id) => ActiveRows(configs) = {}
    /\ IF ConfigClean(th)
       THEN /\ configs' = SaveConfigRows(configs, id, th, is_active)
            /\ ret' = [NoRet EXCEPT !.op = "admin_save_config", !.reason = "Success"]
       ELSE /\ configs' = configs
            /\ ret' = [NoRet EXCEPT !.op = "admin_save_config", !.reason = "ValidationError"]
    /\ UNCHANGED <<callLogs, attendance, audits, nonAttendanceVars>>

\* CallAttendanceIntegration.sync_call_attendance_config, th being the
\* thresholds of the active sales config: the first attendance config takes
\* them and is saved
SyncCallAttendanceConfig(th) ==
    /\ Tick
    /\ IF configs = {}
       THEN /\ configs' = configs
            /\ ret' = [NoRet EXCEPT !.op = "sync_config", !.reason = "False"]
       ELSE LET existing_config == CHOOSE c \in configs : \A q \in configs : c.id <= q.id
            IN  /\ configs' = SaveConfigRows(configs, existing_config.id, th,
                                             existing_config.is_active)
                /\ ret' = [NoRet EXCEPT !.op = "sync_config", !.reason = "True"]
    /\ UNCHANGED <<callLogs, attendance, audits, nonAttendanceVars>>

NextConfig ==
    \/ \E id \in ConfigIds, th \in ConfigInputs, a \in BOOLEAN : SaveConfig(id, th, a)
    \/ \E id \in ConfigIds, th \in ConfigInputs, a \in BOOLEAN : AdminSaveConfig(id, th, a)
    \/ \E th \in ConfigInputs : SyncCallAttendanceConfig(th)

SpecConfig == Init /\ [][NextConfig]_vars

\* C14: at most one config is active after every save, and a save with
\* is_active = true leaves exactly the saved config active.
C14_SingleActive ==
    [][/\ Cardinality(ActiveRows(configs')) <= 1
       /\ \A id \in ConfigIds, th \in ConfigInputs :
              SaveConfig(id, th, TRUE) => {c.id : c \in ActiveRows(configs')} = {id}]_vars

\* config 2 saved as active while config 1 was stored: 1 is inactive now
C14_Witness ==
    /\ ret.op = "save_config"
    /\ \E a \in configs, b \in configs :
           a.id = 1 /\ ~a.is_active /\ b.id = 2 /\ b.is_active

\* C16: every stored config has
\* full_day_minutes > half_day_minutes > absent_threshold_minutes >= 0.
C16_ThresholdOrder ==
    \A c \in configs :
        /\ c.full_day_minutes > c.half_day_minutes
        /\ c.half_day_minutes > c.absent_threshold_minutes
        /\ c.absent_threshold_minutes >= 0

(***************************************************************************)
(* SpecConc: the same tables with the requests taken statement by          *)
(* statement.  The tables hold what is committed.  A request inside        *)
(* transaction.atomic() keeps its writes in w_att / w_audits until it      *)
(* commits; it holds the row lock of the key while w_att is not empty.  A  *)
(* plain SELECT reads what is committed (READ COMMITTED); an UPDATE,       *)
(* INSERT or SELECT ... FOR UPDATE of the key waits for the lock.          *)
(***************************************************************************)
\* the key every request of SpecConc works on, and the date reconciled
ConcKey == <<1, 5>>
ConcEmployee == ConcKey[1]
ConcDate == ConcKey[2]

\* (call_duration_minutes, call_count) each manual update is called with
ManualInput(p) == IF p = "M1" THEN <<2, 1>> ELSE <<0, 0>>

\* the database the requests start from: an active config, a call log for the
\* key, and the key's CallAttendance either absent or already reconciled
ConcConfig == [id |-> 1, full_day_minutes |-> 3, half_day_minutes |-> 2,
               absent_threshold_minutes |-> 1, is_active |-> TRUE]
ConcLog == [employee_id |-> ConcEmployee, date |-> ConcDate,
            call_duration_minutes |-> 3, call_count |-> 2, source |-> "MANUAL"]

InitConc ==
    /\ ClassifyIdle
    /\ ValidatorIdle
    /\ IncentiveIdle
    /\ ClockIdle
    /\ ExpenseIdle
    /\ ret = NoRet
    /\ ops = 0
    /\ txn = [p \in Procs |-> TxnStart]
    /\ configs = SaveConfigRows({}, 1, <<3, 2, 1>>, TRUE)
    /\ callLogs = CreateCallLogRows({}, ConcEmployee, ConcDate, 3, 2, "MANUAL")
    /\ audits = <<>>
    /\ attendance \in
           {{}, AutoUpsert({}, ConcLog, calculate_attendance_status(3, ConcConfig))}

\* no other request holds the row lock of the key
LockFree(p) == \A q \in Procs \ {p} : txn[q].w_att = {}

\* COMMIT: the uncommitted row replaces the committed row of its key
Apply(att, w_att) ==
    IF w_att = {} THEN att
    ELSE {r \in att : \A w \in w_att : ~(r.employee_id = w.employee_id /\ r.date = w.date)}
         \cup w_att

\* leaving transaction.atomic() on an exception, with the save kept
RollbackKeepsSave(att, w_att) == Apply(att, w_att)

\* services.py:225, 104: leaving transaction.atomic() on an exception rolls
\* the uncommitted writes back
Rollback(att, w_att) == att

\* services.py:88-102: working-day check and get_active_config
R_Begin ==
    /\ txn["R"].pc = "start"
    /\ txn' = [txn EXCEPT !["R"] =
                  IF ~is_working_day(ConcDate) THEN [@ EXCEPT !.pc = "done"]
                  ELSE IF ActiveConfigs(configs) = {} THEN [@ EXCEPT !.pc = "failed"]
                  ELSE [@ EXCEPT !.pc = "check", !.config = ActiveConfigs(configs)]]
    /\ UNCHANGED <<attendance, audits, nonConcVars>>

\* services.py:105-122: the loop reaches the key's call log and looks for a
\* MANUAL record with a plain SELECT
R_Check ==
    /\ txn["R"].pc = "check"
    /\ txn' = [txn EXCEPT !["R"] =
                  IF RowsOf(callLogs, ConcEmployee, ConcDate) = {}
                  THEN [@ EXCEPT !.pc = "commit"]
                  ELSE IF ExistingManual(attendance, ConcEmployee, ConcDate) # {}
                  THEN [@ EXCEPT !.pc = "commit", !.skipped = @ + 1]
                  ELSE [@ EXCEPT !.pc = "upsert"]]
    /\ UNCHANGED <<attendance, audits, nonConcVars>>

\* services.py:124-136: update_or_create locks the key's row (or inserts it)
\* and writes the AUTO values over what is committed by then
R_Upsert ==
    /\ txn["R"].pc = "upsert"
    /\ LockFree("R")
    /\ \E config \in txn["R"].config, call_log \in RowsOf(callLogs, ConcEmployee, ConcDate) :
           LET status == calculate_attendance_status(call_log.call_duration_minutes, config)
           IN  txn' = [txn EXCEPT !["R"] =
                          [@ EXCEPT !.pc = "commit",
                                    !.w_att = RowsOf(AutoUpsert(attendance, call_log, status),
                                                     ConcEmployee, ConcDate),
                                    !.processed = @ + 1]]
    /\ UNCHANGED <<attendance, audits, nonConcVars>>

\* services.py:104, 138-142: the atomic block ends and the day's writes commit
R_Commit ==
    /\ txn["R"].pc = "commit"
    /\ attendance' = Apply(attendance, txn["R"].w_att)
    /\ txn' = [txn EXCEPT !["R"] = [@ EXCEPT !.pc = "done", !.w_att = {}]]
    /\ UNCHANGED <<audits, nonConcVars>>


\* services.py:199-222: permission check, employee and config lookups, and
\* the new status, all before the atomic block
M_Begin(p) ==
    /\ txn[p].pc = "start"
    /\ txn' = [txn EXCEPT ![p] =
                  IF ~can_update_attendance("admin") \/ ActiveConfigs(configs) = {}
                  THEN [@ EXCEPT !.pc = "failed"]
                  ELSE [@ EXCEPT !.pc = "get", !.config = ActiveConfigs(configs)]]
    /\ UNCHANGED <<attendance, audits, nonConcVars>>

\* services.py:227-241: get_or_create with a plain SELECT, then the old values
\* are taken from the row in memory; the INSERT of a missing row waits for
\* the key's lock
M_GetOrCreate(p) ==
    /\ txn[p].pc = "get"
    /\ LET found == RowsOf(attendance, ConcEmployee, ConcDate)
           row == GetOrCreateAttendance(attendance, ConcEmployee, ConcDate)
       IN  /\ found = {} => LockFree(p)
           /\ txn' = [txn EXCEPT ![p] =
                         [@ EXCEPT !.pc = "save", !.row = {row}, !.old = {row},
                                   !.w_att = IF found = {} THEN {row} ELSE {}]]
    /\ UNCHANGED <<attendance, audits, nonConcVars>>

\* services.py:244-250: the fields are set on the row in memory and save()
\* writes all of them; the UPDATE waits for the key's lock
M_Save(p) ==
    /\ txn[p].pc = "save"
    /\ LockFree(p)
    /\ \E config \in txn[p].config, row \in txn[p].row :
           LET in == ManualInput(p)
               saved == ManualRow(row, in[1], in[2],
                                  calculate_attendance_status(in[1], config),
                                  EmployeeGet("admin"))
           IN  txn' = [txn EXCEPT ![p] =
                          [@ EXCEPT !.pc = "audit", !.row = {saved}, !.w_att = {saved}]]
    /\ UNCHANGED <<attendance, audits, nonConcVars>>

\* services.py:253-265: CallAttendanceAudit.objects.create
M_Audit(p) ==
    /\ txn[p].pc = "audit"
    /\ \E config \in txn[p].config, old \in txn[p].old :
           LET in == ManualInput(p)
           IN  txn' = [txn EXCEPT ![p] =
                          [@ EXCEPT !.pc = "commit",
                                    !.w_audits = <<AuditRow(old, ConcEmployee, ConcDate,
                                                     in[1], in[2],
                                                     calculate_attendance_status(in[1], config),
                                                     EmployeeGet("admin"))>>]]
    /\ UNCHANGED <<attendance, audits, nonConcVars>>

\* services.py:225, 267: the atomic block ends; record and audit row commit
\* together
M_Commit(p) ==
    /\ txn[p].pc = "commit"
    /\ attendance' = Apply(attendance, txn[p].w_att)
    /\ audits' = audits \o txn[p].w_audits
    /\ txn' = [txn EXCEPT ![p] = [@ EXCEPT !.pc = "done", !.w_att = {}, !.w_audits = <<>>]]
    /\ UNCHANGED nonConcVars

\* services.py:225: a statement inside the atomic block raises (the save, the
\* audit insert, or the commit itself); the block rolls back and the
\* exception leaves the service
M_Fail(p) ==
    /\ txn[p].pc \in {"save", "audit", "commit"}
    /\ attendance' = Rollback(attendance, txn[p].w_att)
    /\ txn' = [txn EXCEPT ![p] = [@ EXCEPT !.pc = "failed", !.w_att = {}, !.w_audits = <<>>]]
    /\ UNCHANGED <<audits, nonConcVars>>

\* views.py:263-283: validation passes and the old values are read
V_ReadOld ==
    /\ txn["V"].pc = "start"
    /\ txn' = [txn EXCEPT !["V"] =
                  [@ EXCEPT !.pc = "get",
                            !.old = RowsOf(attendance, ConcEmployee, ConcDate)]]
    /\ UNCHANGED <<attendance, audits, nonConcVars>>

\* views.py:286-306: get_or_create is given the default loan_amount, which
\* CallAttendance has no field for, so creating the row raises FieldError; on
\* a row that exists, assigning request.user (a User) to updated_by (a
\* foreign key to Employee) raises ValueError before save().  Both are caught
\* at views.py:331 and nothing has been written.
V_GetOrCreate ==
    /\ txn["V"].pc = "get"
    /\ txn' = [txn EXCEPT !["V"] =
                  [@ EXCEPT !.pc = "failed",
                            !.row = RowsOf(attendance, ConcEmployee, ConcDate)]]
    /\ UNCHANGED <<attendance, audits, nonConcVars>>

NextConc ==
    \/ R_Begin
    \/ R_Check
    \/ R_Upsert
    \/ R_Commit
    \/ \E p \in ManualProcs : M_Begin(p)
    \/ \E p \in ManualProcs : M_GetOrCreate(p)
    \/ \E p \in ManualProcs : M_Save(p)
    \/ \E p \in ManualProcs : M_Audit(p)
    \/ \E p \in ManualProcs : M_Commit(p)
    \/ \E p \in ManualProcs : M_Fail(p)
    \/ V_ReadOld
    \/ V_GetOrCreate

SpecConc == InitConc /\ [][NextConc]_vars

\* C2: once a manual update has committed, the key's record is not AUTO and
\* does not carry the call log's values, whatever the interleaving with
\* calculate_daily_attendance.
C2_NoDowngrade ==
    (\E p \in ManualProcs : txn[p].pc = "done") =>
        \A r \in RowsOf(attendance, ConcEmployee, ConcDate) :
            /\ r.source = "MANUAL"
            /\ \A l \in RowsOf(callLogs, ConcEmployee, ConcDate) :
                   r.call_duration_minutes # l.call_duration_minutes

\* a step that commits a manual change of the record
ManualChange == \E r \in attendance' : r.source = "MANUAL" /\ r \notin attendance

C5_Serialized ==
    (txn["M1"].pc = "done" /\ txn["M2"].pc = "done" /\ txn["R"].pc = "start") =>
        /\ Len(audits) = 2
        /\ <<audits[2].old_call_duration, audits[2].old_call_count, audits[2].old_status>>
               = <<audits[1].new_call_duration, audits[1].new_call_count, audits[1].new_status>>
        /\ \E r \in attendance :
               Triple(r) = <<audits[2].new_call_duration, audits[2].new_call_count,
                             audits[2].new_status>>

(***************************************************************************)
(* SpecConfigConc: CallAttendanceConfig.save with is_active = true taken   *)
(* statement by statement.  save() opens no transaction, so the UPDATE     *)
(* that deactivates the active rows and the write of the row itself        *)
(* commit one after the other, and other requests run in between.          *)
(***************************************************************************)
\* the config each save stores
SaverId(p) == IF p = "S1" THEN 2 ELSE 3

InitConfigConc ==
    /\ ClassifyIdle
    /\ ValidatorIdle
    /\ IncentiveIdle
    /\ ClockIdle
    /\ ExpenseIdle
    /\ ret = NoRet
    /\ ops = 0
    /\ txn = [p \in Procs |-> TxnStart]
    /\ callLogs = {}
    /\ attendance = {}
    /\ audits = <<>>
    /\ configs \in
           {SaveConfigRows({}, 1, <<3, 2, 1>>, TRUE),
            SaveConfigRows(SaveConfigRows({}, 2, <<2, 1, 0>>, TRUE), 1, <<3, 2, 1>>, TRUE)}

\* models.py:109-111: filter(is_active=True).update(is_active=False)
S_Deactivate(p) ==
    /\ txn[p].pc = "start"
    /\ configs' = {[c EXCEPT !.is_active = FALSE] : c \in configs}
    /\ txn' = [txn EXCEPT ![p] = [@ EXCEPT !.pc = "save"]]
    /\ UNCHANGED <<classifyVars, validatorVars, incentiveVars,
                   callLogs, attendance, audits, ret, ops, today, expenseVars>>

\* models.py:112: super().save() writes the row, is_active = true
S_Save(p) ==
    /\ txn[p].pc = "save"
    /\ \E th \in ThresholdChoices :
           configs' = {c \in configs : c.id # SaverId(p)}
                      \cup {[id |-> SaverId(p), full_day_minutes |-> th[1],
                             half_day_minutes |-> th[2],
                             absent_threshold_minutes |-> th[3], is_active |-> TRUE]}
    /\ txn' = [txn EXCEPT ![p] = [@ EXCEPT !.pc = "done"]]
    /\ UNCHANGED <<classifyVars, validatorVars, incentiveVars,
                   callLogs, attendance, audits, ret, ops, today, expenseVars>>

\* services.py:27-30: get_active_config, called by one request after another;
\* old keeps what the first call returned, config what the second returned
G_Read ==
    /\ txn["G"].pc \in {"start", "again"}
    /\ txn' = [txn EXCEPT !["G"] =
                  IF @.pc = "start"
                  THEN [@ EXCEPT !.pc = "again", !.old = ActiveConfigs(configs)]
                  ELSE [@ EXCEPT !.pc = "done", !.config = ActiveConfigs(configs)]]
    /\ UNCHANGED <<attendance, audits, nonConcVars>>

NextConfigConc ==
    \/ \E p \in Savers : S_Deactivate(p)
    \/ \E p \in Savers : S_Save(p)
    \/ G_Read

SpecConfigConc == InitConfigConc /\ [][NextConfigConc]_vars

\* C15: no state has two active configs, and a reader that saw an active
\* config sees one again on its next read.
C15_AtomicActivation ==
    /\ Cardinality(ActiveRows(configs)) <= 1
    /\ (txn["G"].pc = "done" /\ txn["G"].old # {}) => txn["G"].config # {}

(***************************************************************************)
(* SpecSlabForm: IncentiveSlab rows entered through IncentiveSlabForm, and *)
(* get_incentive_preview over them.  min_amount and max_amount have two    *)
(* decimal places, so this section counts every amount in hundredths of a  *)
(* Lac and the code's "+ 1" is 100 hundredths; total_incentive and the     *)
(* breakdown's incentive are then in hundredths of a rupee.                *)
(***************************************************************************)
MaxSlabRows == 2            \* most IncentiveSlab rows entered through the form

\* min_amount, max_amount (0 with has_max FALSE: left blank) typed into the form
SlabFormMin == {0, 50, 100}
SlabFormMax == {<<FALSE, 0>>, <<TRUE, 50>>, <<TRUE, 150>>, <<TRUE, 500>>}

\* amounts handed to get_incentive_preview, hundredths of a Lac
PreviewHundredths == {1, 40, 100, 150, 400}

\* sales_incentive_views.py:45-56 with IncentiveSlabForm.clean and the
\* validators of min_amount: a valid form saves a new active row; the
\* per-Lac rate is 300
IncentiveSlabCreate(min_amount, has_max, max_amount) ==
    /\ Len(slabs) < MaxSlabRows
    /\ LET valid == /\ min_amount >= 1
                    /\ ~(has_max /\ max_amount # 0 /\ min_amount >= max_amount)
       IN  /\ slabs' = IF valid
                       THEN Append(slabs, [min_amount |-> min_amount, has_max |-> has_max,
                                           max_amount |-> max_amount,
                                           incentive_per_lac |-> 300, is_active |-> TRUE])
                       ELSE slabs
           /\ iret' = [NoIret EXCEPT !.op = "slab_form", !.amount = min_amount,
                                     !.raised = IF valid THEN "none" ELSE "ValidationError"]
    /\ UNCHANGED <<disbursed, calc, nonIncentiveVars>>

\* sales_incentive_service.py:147-171 with amounts in hundredths of a Lac,
\* the loop from slab i on
RECURSIVE PreviewLoopHundredths(_, _, _, _, _)
PreviewLoopHundredths(ordered, i, remaining_amount, total_incentive, breakdown) ==
    IF i > Len(ordered) \/ remaining_amount <= 0
    THEN [raised |-> "none", total_incentive |-> total_incentive,
          breakdown |-> breakdown, remaining_amount |-> remaining_amount]
    ELSE LET slab == ordered[i]
         IN  IF remaining_amount >= slab.min_amount
             THEN IF ~slab.has_max
                  THEN [raised |-> "TypeError", total_incentive |-> total_incentive,
                        breakdown |-> breakdown, remaining_amount |-> remaining_amount]
                  ELSE LET slab_amount == Min(remaining_amount - slab.min_amount + 100,
                                              slab.max_amount - slab.min_amount + 100)
                           slab_incentive == slab_amount * slab.incentive_per_lac
                       IN  IF slab_amount > 0
                           THEN PreviewLoopHundredths(ordered, i + 1,
                                    remaining_amount - slab_amount,
                                    total_incentive + slab_incentive,
                                    Append(breakdown,
                                           [amount |-> slab_amount,
                                            rate |-> slab.incentive_per_lac,
                                            incentive |-> slab_incentive]))
                           ELSE PreviewLoopHundredths(ordered, i + 1, remaining_amount,
                                                      total_incentive, breakdown)
             ELSE PreviewLoopHundredths(ordered, i + 1, remaining_amount,
                                        total_incentive, breakdown)

\* SalesIncentiveService.get_incentive_preview(loan_amount_lac) with a Decimal
\* amount; iret holds the locals at the return or at the raise (the return
\* statement's total_incentive * 0.7 raises TypeError once a slab has paid)
GetIncentivePreviewHundredths(loan_amount) ==
    /\ LET out == PreviewLoopHundredths(OrderByMinAmount(ActiveSlabs(slabs)), 1,
                                        loan_amount, 0, <<>>)
           raised == IF out.raised # "none" THEN out.raised
                     ELSE IF out.breakdown # <<>> THEN "TypeError"
                     ELSE "none"
       IN  iret' = [op |-> "preview", amount |-> loan_amount, raised |-> raised,
                    total_incentive |-> out.total_incentive,
                    breakdown |-> out.breakdown,
                    remaining_amount |-> out.remaining_amount]
    /\ UNCHANGED <<slabs, disbursed, calc, nonIncentiveVars>>

NextSlabForm ==
    \/ \E m \in SlabFormMin, x \in SlabFormMax : IncentiveSlabCreate(m, x[1], x[2])
    \/ \E a \in PreviewHundredths : GetIncentivePreviewHundredths(a)

SpecSlabForm == InitIncentive /\ [][NextSlabForm]_vars

\* the slab amounts of a breakdown, added up
RECURSIVE SumSlabAmounts(_)
SumSlabAmounts(breakdown) ==
    IF breakdown = <<>> THEN 0
    ELSE Head(breakdown).amount + SumSlabAmounts(Tail(breakdown))

\* C27: after get_incentive_preview of a positive amount over slabs the form
\* accepts, remaining_amount is not negative and the breakdown's slab amounts
\* add up to at most the amount asked for.
C27_NoOverBilling ==
    iret.op = "preview" =>
        /\ iret.remaining_amount >= 0
        /\ SumSlabAmounts(iret.breakdown) <= iret.amount

(***************************************************************************)
(* SpecExpenses: the views of the expenses app.  Expense and               *)
(* ReimbursementRequest rows are kept by pk.  reimbursement_create is      *)
(* followed in two steps, form.is_valid() and the save that follows, and   *)
(* other requests run between them; every other view is one step.          *)
(***************************************************************************)
MaxExpenses == 2            \* most Expense rows created
MaxRequests == 2            \* most ReimbursementRequest rows created

\* the users who enter expenses, and those who ask for reimbursement
Claimants == {"staff"}
Requesters == {"staff", "lead"}
ApproveActions == {"approve", "reject", "none"}
ReimbursementActions == {"approve", "reject", "pay"}

\* permissions.py:10-12
can_approve_expenses(user) == HasPerm(user) \/ IsSuperuser(user)

\* permissions.py:14-16
can_manage_expenses(user) == HasPerm(user) /\ HasPerm(user)

\* permissions.py:18-30: the check made by expense_owner_required
ExpenseOwnerPasses(user, pk) ==
    expenseTable[pk].employee = EmployeeGet(user) \/ can_manage_expenses(user)

\* views.py:21-33: a valid ExpenseForm saved for the calling employee
ExpenseCreate(user, title) ==
    /\ Len(expenseTable) < MaxExpenses
    /\ expenseTable' = Append(expenseTable,
                              [employee |-> EmployeeGet(user), title |-> title,
                               status |-> "draft", approved_by |-> "None",
                               approved_at |-> "None", rejection_reason |-> ""])
    /\ UNCHANGED <<reimbursementTable, forms, nonExpenseVars>>

\* views.py:35-56, POST with a valid form
ExpenseUpdate(user, pk, title) ==
    /\ pk \in 1..Len(expenseTable)
    /\ expenseTable' =
          IF /\ ExpenseOwnerPasses(user, pk)
             /\ expenseTable[pk].employee = EmployeeGet(user)
             /\ expenseTable[pk].status = "draft"
          THEN [expenseTable EXCEPT ![pk].title = title]
          ELSE expenseTable
    /\ UNCHANGED <<reimbursementTable, forms, nonExpenseVars>>

\* views.py:58-71
ExpenseSubmit(user, pk) ==
    /\ pk \in 1..Len(expenseTable)
    /\ expenseTable' =
          IF /\ ExpenseOwnerPasses(user, pk)
             /\ expenseTable[pk].employee = EmployeeGet(user)
             /\ expenseTable[pk].status = "draft"
          THEN [expenseTable EXCEPT ![pk].status = "submitted"]
          ELSE expenseTable
    /\ UNCHANGED <<reimbursementTable, forms, nonExpenseVars>>

\* views.py:103-120, POST; a user who fails can_approve_expenses is sent to
\* the login page
ExpenseApprove(user, pk, action) ==
    /\ pk \in 1..Len(expenseTable)
    /\ expenseTable' =
          IF ~can_approve_expenses(user) THEN expenseTable
          ELSE IF action = "approve"
          THEN [expenseTable EXCEPT ![pk].status = "approved",
                                    ![pk].approved_by = user,
                                    ![pk].approved_at = "now"]
          ELSE IF action = "reject"
          THEN [expenseTable EXCEPT ![pk].status = "rejected",
                                    ![pk].rejection_reason = "reason"]
          ELSE expenseTable
    /\ UNCHANGED <<reimbursementTable, forms, nonExpenseVars>>

\* views.py:128-146, POST
ReimbursementApprove(user, pk, action) ==
    /\ pk \in 1..Len(reimbursementTable)
    /\ reimbursementTable' =
          IF ~can_manage_expenses(user) THEN reimbursementTable
          ELSE IF action = "approve"
          THEN [reimbursementTable EXCEPT ![pk].status = "approved",
                                          ![pk].approved_by = user,
                                          ![pk].approved_at = "now"]
          ELSE IF action = "reject"
          THEN [reimbursementTable EXCEPT ![pk].status = "rejected"]
          ELSE IF action = "pay"
          THEN [reimbursementTable EXCEPT ![pk].status = "paid"]
          ELSE reimbursementTable
    /\ UNCHANGED <<expenseTable, forms, nonExpenseVars>>

\* forms.py:33-39: the queryset of the form's expenses field
FormQueryset(employee) ==
    {e \in 1..Len(expenseTable) :
        /\ expenseTable[e].employee = employee
        /\ expenseTable[e].status = "approved"
        /\ ~\E r \in 1..Len(reimbursementTable) :
              /\ e \in reimbursementTable[r].expenses
              /\ reimbursementTable[r].status \in {"pending", "approved", "paid"}}

\* views.py:79-90: request f is a POST of user with the expenses ticked;
\* form.is_valid() reads the queryset, then the ownership check runs.  An
\* invalid form ends the request.
RC_IsValid(f, user, ticked) ==
    /\ forms[f].pc = "start"
    /\ Len(reimbursementTable) < MaxRequests
    /\ LET valid == ticked # {} /\ ticked \subseteq FormQueryset(EmployeeGet(user))
           user_expenses == {e \in ticked : expenseTable[e].employee = EmployeeGet(user)}
       IN  forms' = IF valid /\ Cardinality(user_expenses) = Cardinality(ticked)
                    THEN [forms EXCEPT ![f] = [pc |-> "valid", user |-> user,
                                               selected |-> ticked]]
                    ELSE forms
    /\ UNCHANGED <<expenseTable, reimbursementTable, nonExpenseVars>>

\* views.py:92-98: the request is saved with status pending and
\* expenses.set(selected_expenses) links the rows that form.is_valid()
\* fetched; the aggregate for total_amount queries the table again (every
\* expense has amount 1)
RC_Save(f) ==
    /\ forms[f].pc = "valid"
    /\ Len(reimbursementTable) < MaxRequests
    /\ reimbursementTable' =
          Append(reimbursementTable,
                 [employee |-> EmployeeGet(forms[f].user),
                  expenses |-> forms[f].selected,
                  total_amount |-> Cardinality(forms[f].selected
                                      \cap FormQueryset(EmployeeGet(forms[f].user))),
                  status |-> "pending", approved_by |-> "None",
                  approved_at |-> "None"])
    /\ forms' = [forms EXCEPT ![f] = NoForm]
    /\ UNCHANGED <<expenseTable, nonExpenseVars>>

NextExpenses ==
    \/ \E u \in Claimants : ExpenseCreate(u, "taxi")
    \/ \E u \in Users, pk \in 1..MaxExpenses : ExpenseUpdate(u, pk, "hotel")
    \/ \E u \in Users, pk \in 1..MaxExpenses : ExpenseSubmit(u, pk)
    \/ \E u \in Callers, pk \in 1..MaxExpenses, a \in ApproveActions : ExpenseApprove(u, pk, a)
    \/ \E u \in Callers, pk \in 1..MaxRequests, a \in ReimbursementActions :
          ReimbursementApprove(u, pk, a)
    \/ \E f \in FormIds, u \in Requesters, ticked \in SUBSET (1..MaxExpenses) :
          RC_IsValid(f, u, ticked)
    \/ \E f \in FormIds : RC_Save(f)

SpecExpenses == Init /\ [][NextExpenses]_vars

\* the requests with status pending, approved or paid that expense e is linked to
ActiveRequestsOf(e) ==
    {r \in 1..Len(reimbursementTable) :
        /\ e \in reimbursementTable[r].expenses
        /\ reimbursementTable[r].status \in {"pending", "approved", "paid"}}

\* C28: in every state, no Expense is linked to more than one
\* ReimbursementRequest whose status is pending, approved or paid, and every
\* expense linked to a request belongs to the request's employee.
C28_SingleActiveRequest ==
    /\ \A e \in 1..Len(expenseTable) : Cardinality(ActiveRequestsOf(e)) <= 1
    /\ \A r \in 1..Len(reimbursementTable) : \A e \in reimbursementTable[r].expenses :
          expenseTable[e].employee = reimbursementTable[r].employee

\* C29: in every step, a ReimbursementRequest becomes paid only from approved,
\* and one that is rejected or paid keeps its status.
C29_PaidOnlyFromApproved ==
    [][\A pk \in 1..Len(reimbursementTable) :
          LET old == reimbursementTable[pk].status
              new == reimbursementTable'[pk].status
          IN  /\ (new = "paid" /\ old # "paid") => old = "approved"
              /\ old \in {"rejected", "paid"} => new = old]_vars

\* C30: in every step, an Expense becomes approved or rejected only from
\* submitted, leaves draft only for submitted, changes its title only while
\* it is draft, and an approved Expense has approved_by and approved_at set.
C30_ExpenseTransitions ==
    [][\A pk \in 1..Len(expenseTable) :
          LET old == expenseTable[pk]
              new == expenseTable'[pk]
          IN  /\ (new.status \in {"approved", "rejected"} /\ new.status # old.status)
                    => old.status = "submitted"
              /\ (old.status = "draft" /\ new.status # "draft") => new.status = "submitted"
              /\ new.title # old.title => old.status = "draft"
              /\ new.status = "approved"
                    => new.approved_by # "None" /\ new.approved_at # "None"]_vars

====
